---- MODULE Spec2Model ----
(***************************************************************************)
(* A model of lib/Compilation.js: the module store and its cache, the      *)
(* concurrent construction of the module graph under the semaphore, the    *)
(* build coordinator, the chunk graph builder, the id allocators, the      *)
(* labelling of the modules and the seal lifecycle.                        *)
(*                                                                         *)
(* The module holds several specifications over one set of variables; each *)
(* specification leaves the variables of the other parts at their initial  *)
(* value.                                                                  *)
(*   SpecBuild       addEntry, prefetch, addModuleDependencies and         *)
(*                   rebuildModule with their factory and build callbacks  *)
(*   SpecReasons     the reasons of the modules under rebuildModule and a  *)
(*                   second processModuleDependencies                      *)
(*   SpecGraph       addEntry and prefetch alone, for every capacity of    *)
(*                   the semaphore                                         *)
(*   SpecChunkGraph  seal() up to processDependenciesBlocksForChunks       *)
(*   SpecLabel       assignIndex and assignDepth on the given graphs       *)
(*   SpecSeal        seal() with its hooks, unseal() and further passes    *)
(*   SpecBailLoops   the optimising loops of seal() and their bail hooks   *)
(*   SpecModuleIds   applyModuleIds on bounded module lists                *)
(*   SpecChunkIds    applyChunkIds on bounded chunk lists                  *)
(*   SpecConstraints checkConstraints on bounded module and chunk lists    *)
(***************************************************************************)
EXTENDS Integers, Sequences, FiniteSets, TLC

VARIABLES
    (* the id allocators *)
    modules,          \* compilation.modules, in order
    moduleId,         \* module -> module.id (NullId for null)
    usedModuleIds,    \* compilation.usedModuleIds: Absent, or the set of reserved ids
    chunks,           \* compilation.chunks, in order
    chunkId,          \* chunk -> chunk.id (NullId for null)
    chunkIdsArr,      \* chunk -> chunk.ids (NoIds when the chunk has no ids array)
    usedChunkIds,     \* compilation.usedChunkIds: Absent, or the set of reserved ids
    idsPhase,         \* "input", then "applied" once the allocator has run
    constraints,      \* how checkConstraints() ended, NotChecked before it ran
    (* the module graph that seal() partitions *)
    moduleDeps,       \* module -> module.dependencies (sequence of dependencies)
    asyncBlocks,      \* async block -> [parent, chunkName, dependencies]
    preparedChunks,   \* compilation.preparedChunks: sequence of slots [name, module]
    (* the chunk graph *)
    chunkObj,         \* chunk -> its fields (name, modules, parents, chunks, blocks, ...)
    namedChunks,      \* compilation.namedChunks: name -> chunk
    moduleChunks,     \* module -> the chunks it was added to (module.addChunk)
    blockChunkList,   \* async block -> block.chunks
    warnings,         \* compilation.warnings
    sealPc,           \* the position of seal()
    (* locals of processDependenciesBlocksForChunks *)
    inputChunks,      \* the argument: compilation.chunks.slice()
    queue,            \* part one: stack of {block, chunk}
    blockChunks,      \* part one: Map block -> chunk
    chunkDependencies,\* part one: Map chunk -> sequence of {block, chunk}
    allCreatedChunks, \* part one: Set of chunks
    queue2,           \* part two: FIFO of {chunk, availableModules}
    minAvailableModulesMap, \* part two: Map chunk -> Set of modules
    (* the construction of the module graph *)
    _modules,         \* compilation._modules: identifier -> module object
    cache,            \* compilation.cache: absent, or cache name -> module object
    timestamps,       \* fileTimestamps and contextTimestamps are both set
    bail,             \* compilation.bail
    errors,           \* compilation.errors
    entries,          \* compilation.entries
    prefetched,       \* the module objects with module.prefetched = true
    semaphore,        \* compilation.semaphore: [available, waiters]
    _buildingModules, \* compilation._buildingModules: module object -> callback list
    _rebuildingModules, \* compilation._rebuildingModules: module object -> callback list
    building,         \* module object -> module.build calls that have not called back
    builds,           \* module object -> module.build calls made so far
    reasons,          \* module.reasons of the module objects, where it is kept
    moduleDependencies, \* module object -> the resources of module.dependencies
    tasks,            \* the tasks of _addModuleChain and addModuleDependencies
    calls,            \* the invocations of addModuleDependencies
    rebuildCalls,     \* the rebuildModule calls and what their callback received
    ticks,            \* the process.nextTick queue
    lastAdd,          \* the latest addModule call: arguments, state before, result
    lastBuild,        \* the latest buildModule or rebuildModule call
    joinLog,          \* what each callback of a finished build received
    lastFailure,      \* the latest factory call of addModuleDependencies that failed
    calledBack,       \* the addModuleDependencies callbacks that the turn called
    (* the labelling of the modules *)
    index,            \* module -> module.index (NoLabel for null)
    index2,           \* module -> module.index2 (NoLabel for null)
    depth,            \* module -> module.depth (NoLabel for null)
    nextFreeModuleIndex,  \* compilation.nextFreeModuleIndex
    nextFreeModuleIndex2, \* compilation.nextFreeModuleIndex2
    labelQueue,       \* the local `queue` of assignIndex / assignDepth (a stack)
    labelSlot,        \* the position of the forEach of seal() in preparedChunks
    labelPc,          \* the position of the labelling
    (* the hashes and the assets of seal() *)
    moduleHash,       \* module -> module.hash (NoHash for undefined)
    chunkHash,        \* chunk -> chunk.hash (NoHash for undefined)
    hash,             \* compilation.hash (NoHash for undefined)
    assets,           \* compilation.assets: file name -> source
    chunkFiles,       \* chunk -> chunk.files
    additionalChunkAssets, \* compilation.additionalChunkAssets
    hooks,            \* what the plugins and the templates of the compilation do
    sealLog,          \* the operations of the running pass of seal(), in order
    sealCalls,        \* what one seal(callback) call has called so far
    lastSeal,         \* what the latest pass left, as unseal() found it
    bailLoops         \* the optimising loops of seal(): position, hook calls, plugins

idVars == <<moduleId, usedModuleIds, chunkId, chunkIdsArr, usedChunkIds, idsPhase,
            constraints>>

graphVars == <<moduleDeps, asyncBlocks, preparedChunks>>

chunkVars == <<chunkObj, namedChunks, moduleChunks, blockChunkList, sealPc,
               inputChunks, queue, blockChunks, chunkDependencies,
               allCreatedChunks, queue2, minAvailableModulesMap>>

buildVars == <<_modules, cache, timestamps, bail, errors, entries, prefetched,
               semaphore, _buildingModules, _rebuildingModules, building,
               builds, reasons, moduleDependencies, tasks, calls, rebuildCalls, ticks,
               lastAdd, lastBuild, joinLog, lastFailure, calledBack>>

labelVars == <<index, index2, depth, nextFreeModuleIndex, nextFreeModuleIndex2,
               labelQueue, labelSlot, labelPc>>

sealVars == <<moduleHash, chunkHash, hash, assets, chunkFiles, additionalChunkAssets,
              hooks, sealLog, sealCalls, lastSeal, bailLoops>>

vars == <<modules, chunks, warnings, idVars, graphVars, chunkVars, buildVars,
          labelVars, sealVars>>

(***************************************************************************)
(* Bounds of the id allocator specifications.                              *)
(***************************************************************************)
MaxIdModules == 3
MaxIdChunks == 3
MaxCarriedId == 2

(* module.id === null / chunk.id === null; ids are non-negative integers *)
NullId == -1
(* `this.usedModuleIds` / `this.usedChunkIds` undefined; an object {id: id} otherwise *)
Absent == [present |-> FALSE, ids |-> {}]
Reserved(S) == [present |-> TRUE, ids |-> S]
(* `chunk.ids` undefined; an array otherwise *)
NoIds == [present |-> FALSE, arr |-> <<>>]
IdsArray(a) == [present |-> TRUE, arr |-> a]

SetMax(S) == CHOOSE x \in S : \A y \in S : y <= x

(* an id that is not a number, a string such as "x": `typeof id` is not    *)
(* "number" for it, and it is truthy                                       *)
StringId == 100
IsNumber(id) == id # StringId

(* checkConstraints() has not been called *)
NotChecked == "not checked"

(***************************************************************************)
(* applyModuleIds, lines 1166-1222.                                        *)
(***************************************************************************)

(* lines 1172-1189: usedIdMap after both collection loops.  A module's id  *)
(* is recorded only when `module1.id` is truthy: null and 0 are not.       *)
ModuleUsedIdMap(ids, used) ==
    used.ids
        \cup {ids[i] : i \in {j \in DOMAIN ids : ids[j] # NullId /\ ids[j] # 0}}

(* lines 1191-1210: nextFreeModuleId after the scan of usedIds, which      *)
(* skips the ids that are not numbers and starts from usedIdMax = -1       *)
ModuleNextFree(usedMap) ==
    LET numbers == {id \in usedMap : IsNumber(id)}
    IN  IF usedMap = {} THEN 0
        ELSE IF numbers = {} THEN 0
        ELSE SetMax(numbers) + 1

(* lines 1203-1209: unusedIds is filled from usedIdMax down to 0, so that  *)
(* pop() yields the smallest unused id first.  The sequence below is in    *)
(* pop order.                                                              *)
RECURSIVE AscendingSeq(_)
AscendingSeq(S) ==
    IF S = {} THEN <<>>
    ELSE LET m == CHOOSE x \in S : \A y \in S : x <= y
         IN  <<m>> \o AscendingSeq(S \ {m})

ModuleUnusedIds(usedMap) ==
    AscendingSeq({i \in 0..(ModuleNextFree(usedMap) - 1) : i \notin usedMap})

(* lines 1212-1221: the assignment loop over modules, in order *)
RECURSIVE AssignIds(_, _, _, _)
AssignIds(ids, i, unused, nextFree) ==
    IF i > Len(ids) THEN ids
    ELSE IF ids[i] # NullId THEN AssignIds(ids, i + 1, unused, nextFree)
    ELSE IF Len(unused) > 0
         THEN AssignIds([ids EXCEPT ![i] = Head(unused)], i + 1, Tail(unused), nextFree)
         ELSE AssignIds([ids EXCEPT ![i] = nextFree], i + 1, unused, nextFree + 1)

applyModuleIdsResult(ids, used) ==
    LET usedMap == ModuleUsedIdMap(ids, used)
    IN  AssignIds(ids, 1, ModuleUnusedIds(usedMap), ModuleNextFree(usedMap))

applyModuleIds ==
    /\ idsPhase = "input"
    /\ moduleId' = applyModuleIdsResult(moduleId, usedModuleIds)
    /\ idsPhase' = "applied"
    /\ UNCHANGED <<modules, usedModuleIds, chunks, chunkId, chunkIdsArr, usedChunkIds,
                   constraints>>
    /\ UNCHANGED <<warnings, graphVars, chunkVars, buildVars, labelVars, sealVars>>

(***************************************************************************)
(* applyChunkIds, lines 1224-1264.                                         *)
(***************************************************************************)

(* lines 1226-1241: nextFreeChunkId after the scan of usedChunkIds *)
ChunkNextFree(used) ==
    IF used.ids = {} THEN 0 ELSE SetMax(used.ids) + 1

(* lines 1243-1248, in pop order; nothing is collected without usedChunkIds *)
ChunkUnusedIds(used) ==
    IF ~used.present THEN <<>>
    ELSE AscendingSeq({i \in 0..(ChunkNextFree(used) - 1) : i \notin used.ids})

(* lines 1260-1262 *)
ChunkIdsAfter(arr, ids) ==
    [i \in DOMAIN arr |-> IF ~arr[i].present THEN IdsArray(<<ids[i]>>) ELSE arr[i]]

applyChunkIdsResult(ids, used) ==
    AssignIds(ids, 1, ChunkUnusedIds(used), ChunkNextFree(used))

applyChunkIds ==
    /\ idsPhase = "input"
    /\ chunkId' = applyChunkIdsResult(chunkId, usedChunkIds)
    /\ chunkIdsArr' = ChunkIdsAfter(chunkIdsArr, chunkId')
    /\ idsPhase' = "applied"
    /\ UNCHANGED <<modules, moduleId, usedModuleIds, chunks, usedChunkIds, constraints>>
    /\ UNCHANGED <<warnings, graphVars, chunkVars, buildVars, labelVars, sealVars>>

(***************************************************************************)
(* Inputs of the allocators: lists of at most MaxIdModules modules (chunks)*)
(* whose ids are null or carried, carried ids pairwise distinct, and any   *)
(* set of reserved ids (or none).                                          *)
(***************************************************************************)
CarriedIds == 0..MaxCarriedId

Distinct(ids) ==
    \A i, j \in DOMAIN ids : (i # j /\ ids[i] # NullId /\ ids[j] # NullId) => ids[i] # ids[j]

IdLists(n) ==
    {ids \in UNION {[1..k -> CarriedIds \cup {NullId}] : k \in 0..n} : Distinct(ids)}

Reservations == {Absent} \cup {Reserved(S) : S \in SUBSET CarriedIds}

(* module ids may be strings: one of the modules, or one of the reserved   *)
(* ids, may be the string                                                  *)
ModuleIdLists(n) ==
    {ids \in UNION {[1..k -> CarriedIds \cup {NullId, StringId}] : k \in 0..n} :
        Distinct(ids)}

ModuleReservations ==
    {Absent} \cup {Reserved(S) : S \in SUBSET (CarriedIds \cup {StringId})}

(* the variables of the id allocators, where no allocator runs *)
InitNoIds ==
    /\ moduleId = <<>>
    /\ usedModuleIds = Absent
    /\ chunkId = <<>>
    /\ chunkIdsArr = <<>>
    /\ usedChunkIds = Absent
    /\ idsPhase = "input"
    /\ constraints = NotChecked

(* the variables of the chunk graph, where seal() does not run *)
InitNoChunkGraph ==
    /\ moduleDeps = <<>>
    /\ asyncBlocks = <<>>
    /\ preparedChunks = <<>>
    /\ chunkObj = <<>>
    /\ namedChunks = <<>>
    /\ moduleChunks = <<>>
    /\ blockChunkList = <<>>
    /\ warnings = <<>>
    /\ sealPc = "idle"
    /\ inputChunks = <<>>
    /\ queue = <<>>
    /\ blockChunks = <<>>
    /\ chunkDependencies = <<>>
    /\ allCreatedChunks = {}
    /\ queue2 = <<>>
    /\ minAvailableModulesMap = <<>>

(***************************************************************************)
(* Values of the module graph construction.                                *)
(***************************************************************************)
(* A module object: its identifier() and the factory call that created it *)
(* (the number of the task; 0 for an object an earlier compilation left   *)
(* in the cache).  Objects with equal identifiers are different objects.  *)
ModuleObject(identifier, n) == [identifier |-> identifier, n |-> n]
(* null / undefined where a module object is expected *)
NoObject == [identifier |-> "", n |-> -1]

EmptyMap == [x \in {} |-> NoObject]
MapSet(f, k, v) == [x \in DOMAIN f \cup {k} |-> IF x = k THEN v ELSE f[x]]
MapDelete(f, k) == [x \in DOMAIN f \ {k} |-> f[x]]

(* `this.cache` undefined; an object cache name -> module otherwise *)
NoCache == [present |-> FALSE, map |-> EmptyMap]
(* module.reasons: left out of a specification, or module object -> set,  *)
(* with the build that created the objects of module.dependencies          *)
NoReasons == [kept |-> FALSE, map |-> EmptyMap, gen |-> EmptyMap]
Reasons(map) == [kept |-> TRUE, map |-> map, gen |-> EmptyMap]
Cache(map) == [present |-> TRUE, map |-> map]

(* no addModule / buildModule call has been made yet *)
NoAddCall == [called |-> FALSE]
NoBuildCall == [called |-> FALSE]
(* no factory call has failed *)
NoFailure == [called |-> FALSE]

(* module.index, module.index2, module.depth null *)
NoLabel == NullId

(* the variables of the labelling, where seal() does not label *)
InitNoLabel ==
    /\ index = <<>>
    /\ index2 = <<>>
    /\ depth = <<>>
    /\ nextFreeModuleIndex = 0
    /\ nextFreeModuleIndex2 = 0
    /\ labelQueue = <<>>
    /\ labelSlot = 0
    /\ labelPc = "idle"

(* compilation.hash, module.hash, chunk.hash undefined *)
NoHash == [set |-> FALSE]
(* no pass of seal() has ended in unseal() *)
NoSeal == [sealed |-> FALSE]

(* the variables of the hashes and assets, where seal() does not run *)
InitNoSeal ==
    /\ moduleHash = <<>>
    /\ chunkHash = <<>>
    /\ hash = NoHash
    /\ assets = <<>>
    /\ chunkFiles = <<>>
    /\ additionalChunkAssets = <<>>
    /\ hooks = <<>>
    /\ sealLog = <<>>
    /\ sealCalls = <<>>
    /\ lastSeal = NoSeal
    /\ bailLoops = <<>>

(* the variables of the module graph construction, where nothing is added *)
InitNoBuild ==
    /\ _modules = EmptyMap
    /\ cache = NoCache
    /\ timestamps = FALSE
    /\ bail = FALSE
    /\ errors = <<>>
    /\ entries = <<>>
    /\ prefetched = {}
    /\ semaphore = [available |-> 0, waiters |-> <<>>]
    /\ _buildingModules = EmptyMap
    /\ _rebuildingModules = EmptyMap
    /\ building = EmptyMap
    /\ builds = EmptyMap
    /\ reasons = NoReasons
    /\ moduleDependencies = EmptyMap
    /\ tasks = EmptyMap
    /\ calls = EmptyMap
    /\ rebuildCalls = <<>>
    /\ ticks = <<>>
    /\ lastAdd = NoAddCall
    /\ lastBuild = NoBuildCall
    /\ joinLog = {}
    /\ lastFailure = NoFailure
    /\ calledBack = {}

InitModuleIds ==
    /\ moduleId \in ModuleIdLists(MaxIdModules)
    /\ modules = [i \in DOMAIN moduleId |-> i]
    /\ usedModuleIds \in ModuleReservations
    /\ chunks = <<>>
    /\ chunkId = <<>>
    /\ chunkIdsArr = <<>>
    /\ usedChunkIds = Absent
    /\ idsPhase = "input"
    /\ constraints = NotChecked
    /\ InitNoChunkGraph
    /\ InitNoBuild
    /\ InitNoLabel
    /\ InitNoSeal

InitChunkIds ==
    /\ chunkId \in IdLists(MaxIdChunks)
    /\ chunks = [i \in DOMAIN chunkId |-> i]
    /\ chunkIdsArr \in {arr \in [DOMAIN chunkId -> {NoIds} \cup {IdsArray(<<c>>) : c \in CarriedIds}] :
                          \A i \in DOMAIN arr : arr[i].present => arr[i].arr = <<chunkId[i]>>}
    /\ usedChunkIds \in Reservations
    /\ modules = <<>>
    /\ moduleId = <<>>
    /\ usedModuleIds = Absent
    /\ idsPhase = "input"
    /\ constraints = NotChecked
    /\ InitNoChunkGraph
    /\ InitNoBuild
    /\ InitNoLabel
    /\ InitNoSeal

SpecModuleIds == InitModuleIds /\ [][applyModuleIds]_vars

SpecChunkIds == InitChunkIds /\ [][applyChunkIds]_vars

(***************************************************************************)
(* checkConstraints, lines 1479-1498, on bounded lists of modules and of   *)
(* chunks in which ids and chunks may repeat.  A string id is none of the  *)
(* property names of Object.prototype.  chunk.checkConstraints()           *)
(* (lib/Chunk.js is not part of the sources) throws for the chunks that    *)
(* are inconsistent, whichever these are.                                  *)
(***************************************************************************)
(* lines 1482-1488: usedIds is read for every module and never written *)
RECURSIVE checkModuleIds(_, _, _)
checkModuleIds(ids, usedIds, indexModule) ==
    IF indexModule > Len(ids) THEN "passed"
    ELSE IF ids[indexModule] \in usedIds THEN "duplicate module id"
    ELSE checkModuleIds(ids, usedIds, indexModule + 1)

(* chunks.indexOf(chunk) *)
IndexOf(s, x) == CHOOSE i \in DOMAIN s : s[i] = x /\ \A j \in 1..(i - 1) : s[j] # x

(* lines 1490-1497 *)
RECURSIVE checkChunks(_, _, _)
checkChunks(cs, inconsistent, indexChunk) ==
    IF indexChunk > Len(cs) THEN "passed"
    ELSE IF IndexOf(cs, cs[indexChunk]) # indexChunk THEN "duplicate chunk"
    ELSE IF cs[indexChunk] \in inconsistent THEN "chunk constraint"
    ELSE checkChunks(cs, inconsistent, indexChunk + 1)

checkConstraintsResult(ids, cs, inconsistent) ==
    LET thrown == checkModuleIds(ids, {}, 1)
    IN  IF thrown # "passed" THEN thrown ELSE checkChunks(cs, inconsistent, 1)

checkConstraints ==
    /\ constraints = NotChecked
    /\ \E inconsistent \in SUBSET {chunks[i] : i \in DOMAIN chunks} :
          constraints' = checkConstraintsResult(moduleId, chunks, inconsistent)
    /\ UNCHANGED <<modules, moduleId, usedModuleIds, chunks, chunkId, chunkIdsArr,
                   usedChunkIds, idsPhase>>
    /\ UNCHANGED <<warnings, graphVars, chunkVars, buildVars, labelVars, sealVars>>

(* the modules have ids, numbers or the string, and every chunk object has *)
(* an id of its own                                                        *)
InitConstraints ==
    /\ moduleId \in UNION {[1..k -> CarriedIds \cup {StringId}] : k \in 0..MaxIdModules}
    /\ modules = [i \in DOMAIN moduleId |-> i]
    /\ usedModuleIds = Absent
    /\ chunks \in UNION {[1..k -> 1..MaxIdChunks] : k \in 0..MaxIdChunks}
    /\ chunkId = [c \in 1..MaxIdChunks |-> c - 1]
    /\ chunkIdsArr = [c \in 1..MaxIdChunks |-> IdsArray(<<c - 1>>)]
    /\ usedChunkIds = Absent
    /\ idsPhase = "applied"
    /\ constraints = NotChecked
    /\ InitNoChunkGraph
    /\ InitNoBuild
    /\ InitNoLabel
    /\ InitNoSeal

SpecConstraints == InitConstraints /\ [][checkConstraints]_vars

(***************************************************************************)
(* Claims on the id allocators.                                            *)
(***************************************************************************)

PairwiseDistinct(ids) ==
    \A i, j \in DOMAIN ids : i # j => ids[i] # ids[j]

(* C7: after applyModuleIds all modules of `modules` have pairwise         *)
(* distinct ids, whatever ids are reserved in usedModuleIds and whatever   *)
(* (pairwise distinct, non-negative, 0 included) ids modules carry before. *)
C7_ModuleIdsDistinct ==
    idsPhase = "applied" => PairwiseDistinct(moduleId)

(* the k-th smallest non-negative integer that is not in taken *)
KthFree(taken, k) ==
    CHOOSE n \in 0..(Cardinality(taken) + k) :
        n \notin taken /\ Cardinality({x \in 0..n : x \notin taken}) = k

(* C27: applyModuleIds leaves the id of a module that has one, and gives   *)
(* the modules whose id is null, in the order of modules, the smallest     *)
(* non-negative integers that are neither reserved in usedModuleIds nor    *)
(* carried by a module, in ascending order; ids that are not numbers take  *)
(* no part in this.                                                        *)
C27_SmallestFreeIdsInOrder ==
    [][(idsPhase = "input" /\ idsPhase' = "applied" /\ modules # <<>>) =>
          LET carried == {moduleId[i] : i \in DOMAIN moduleId} \ {NullId}
              taken == {id \in usedModuleIds.ids \cup carried : IsNumber(id)}
              Nulls(i) == Cardinality({j \in 1..i : moduleId[j] = NullId})
          IN  \A i \in DOMAIN moduleId :
                 moduleId'[i] = IF moduleId[i] # NullId THEN moduleId[i]
                                ELSE KthFree(taken, Nulls(i))
      ]_vars

(* C8: applyChunkIds gives a chunk whose id is null no id that is reserved *)
(* in usedChunkIds or carried by another chunk, so that chunk ids are      *)
(* pairwise distinct afterwards, and every chunk that had no ids array     *)
(* ends with ids = [chunk.id].                                             *)
C8_ChunkIdsDistinct ==
    [][(idsPhase = "input" /\ idsPhase' = "applied") =>
          /\ \A i \in DOMAIN chunkId :
                chunkId[i] = NullId =>
                    /\ chunkId'[i] \notin usedChunkIds.ids
                    /\ chunkId'[i] \notin {chunkId[j] : j \in DOMAIN chunkId} \ {NullId}
          /\ PairwiseDistinct(chunkId')
          /\ \A i \in DOMAIN chunkId :
                ~chunkIdsArr[i].present => chunkIdsArr'[i] = IdsArray(<<chunkId'[i]>>)
      ]_vars

(***************************************************************************)
(* The module graph handed to seal(): modules with their dependencies and  *)
(* async blocks (DependenciesBlock: lines 37-50, 986-996).                 *)
(***************************************************************************)
MaxSyncEdges == 2
MaxBlockDeps == 2

ModSeq == <<"A", "B", "C", "D", "E">>
ModNames == {ModSeq[i] : i \in DOMAIN ModSeq}
(* the modules of the enumerated module graphs; C and D only occur in the  *)
(* module graphs that are given one by one                                 *)
GraphModules == {"A", "B", "E"}
BlockSeq == <<"b1", "b2">>
BlockNames == {BlockSeq[i] : i \in DOMAIN BlockSeq}
ChunkNames == {"main", "second", "x"}

(* no module: `dependency.module` / `ref.module` null; `chunk.entryModule` undefined *)
NoModule == "-"
(* no name: `chunkName` / `name` undefined *)
NoName == ""
(* no chunk: undefined; chunks are numbered from 1 in creation order *)
NoChunk == 0

(* a dependency: the module of its reference (NoModule when getReference() *)
(* is null or has no module) and its weak flag (lines 950-964)             *)
Dep(target, weak) == [module |-> target, weak |-> weak]

(* block.dependencies of a module or of an async block *)
BlockDependencies(b) ==
    IF b \in ModNames THEN moduleDeps[b] ELSE asyncBlocks[b].dependencies

(* block.blocks of a module or of an async block, in order *)
BlockBlocks(b) ==
    LET Child(x) == x \in DOMAIN asyncBlocks /\ asyncBlocks[x].parent = b
    IN  SelectSeq(BlockSeq, Child)

(* b.module: the module an async block belongs to *)
RECURSIVE BlockModule(_)
BlockModule(b) ==
    IF b \in ModNames THEN b ELSE BlockModule(asyncBlocks[b].parent)

(***************************************************************************)
(* Chunk (lib/Chunk.js), as Compilation uses it.                           *)
(***************************************************************************)
NewChunk(name, module) ==
    [name |-> name, modules |-> {}, parents |-> {}, chunks |-> {}, blocks |-> {},
     entryModule |-> NoModule, initial |-> FALSE,
     origins |-> IF module = NoModule THEN {} ELSE {module}]

(* block.chunks: null until part one initialises it (line 930) *)
NullList == [init |-> FALSE, list |-> <<>>]
EmptyList == [init |-> TRUE, list |-> <<>>]

(* The state the chunk graph builder works on, as one record. *)
G ==
    [chunks |-> chunks, chunkObj |-> chunkObj, namedChunks |-> namedChunks,
     moduleChunks |-> moduleChunks, blockChunkList |-> blockChunkList,
     warnings |-> warnings, queue |-> queue, blockChunks |-> blockChunks,
     chunkDependencies |-> chunkDependencies, allCreatedChunks |-> allCreatedChunks,
     threw |-> FALSE]

SetG(g) ==
    /\ chunks' = g.chunks
    /\ chunkObj' = g.chunkObj
    /\ namedChunks' = g.namedChunks
    /\ moduleChunks' = g.moduleChunks
    /\ blockChunkList' = g.blockChunkList
    /\ warnings' = g.warnings
    /\ queue' = g.queue
    /\ blockChunks' = g.blockChunks
    /\ chunkDependencies' = g.chunkDependencies
    /\ allCreatedChunks' = g.allCreatedChunks

(* addChunk(name, module, loc), lines 764-780: the state after the call    *)
(* and the chunk returned                                                  *)
addChunk(g, name, module) ==
    IF name # NoName /\ name \in DOMAIN g.namedChunks
    THEN LET c == g.namedChunks[name]
         IN  [g |-> IF module # NoModule
                    THEN [g EXCEPT !.chunkObj[c].origins = @ \cup {module}]
                    ELSE g,
              chunk |-> c]
    ELSE LET c == Len(g.chunks) + 1
         IN  [g |-> [g EXCEPT !.chunks = Append(@, c),
                              !.chunkObj = @ @@ (c :> NewChunk(name, module)),
                              !.namedChunks = IF name # NoName THEN @ @@ (name :> c) ELSE @],
              chunk |-> c]

(* seal(), lines 616-627: one chunk per preparedChunks slot *)
RECURSIVE SealSlots(_, _)
SealSlots(g, i) ==
    IF i > Len(preparedChunks) THEN g
    ELSE LET slot == preparedChunks[i]
             r == addChunk(g, slot.name, slot.module)
             c == r.chunk
         IN  SealSlots([r.g EXCEPT !.chunkObj[c].initial = TRUE,
                                   !.chunkObj[c].modules = @ \cup {slot.module},
                                   !.chunkObj[c].entryModule = slot.module,
                                   !.moduleChunks[slot.module] = @ \cup {c}],
                       i + 1)

(* seal(), lines 616-628, and lines 898-909: the chunks of the entries are *)
(* created and processDependenciesBlocksForChunks(this.chunks.slice())     *)
(* starts                                                                  *)
sealPreparedChunks ==
    /\ sealPc = "seal"
    /\ LET g == SealSlots(G, 1)
       IN  /\ SetG([g EXCEPT !.queue =
                        [i \in DOMAIN g.chunks |->
                            [block |-> g.chunkObj[g.chunks[i]].entryModule,
                             chunk |-> g.chunks[i]]]])
           /\ inputChunks' = g.chunks
    /\ sealPc' = "partOne"
    /\ UNCHANGED <<modules, buildVars, labelVars, sealVars, idVars, graphVars, queue2, minAvailableModulesMap>>

(***************************************************************************)
(* processDependenciesBlocksForChunks, part one (lines 901-997).           *)
(***************************************************************************)

(* a variant of iteratorDependency that leaves out a module that already   *)
(* is a member of another chunk                                            *)
iteratorDependency_SkipsPlaced(g, chunk, d) ==
    IF d.module = NoModule \/ d.weak THEN g
    ELSE IF d.module \in g.chunkObj[chunk].modules \/ g.moduleChunks[d.module] # {} THEN g
    ELSE [g EXCEPT !.chunkObj[chunk].modules = @ \cup {d.module},
                   !.moduleChunks[d.module] = @ \cup {chunk},
                   !.queue = Append(@, [block |-> d.module, chunk |-> chunk])]

(* iteratorDependency, lines 950-976 *)
iteratorDependency(g, chunk, d) ==
    IF d.module = NoModule \/ d.weak THEN g
    ELSE IF d.module \in g.chunkObj[chunk].modules THEN g
    ELSE [g EXCEPT !.chunkObj[chunk].modules = @ \cup {d.module},
                   !.moduleChunks[d.module] = @ \cup {chunk},
                   !.queue = Append(@, [block |-> d.module, chunk |-> chunk])]

(* a variant of iteratorBlock that hands a block that names an initial     *)
(* chunk to the chunk it names                                             *)
iteratorBlock_IntoNamedChunk(g, chunk, b) ==
    LET name == asyncBlocks[b].chunkName
        known == b \in DOMAIN g.blockChunks
        r == addChunk(g, name, BlockModule(b))
        c == IF known THEN g.blockChunks[b] ELSE r.chunk
        g1 == IF known THEN g
              ELSE [r.g EXCEPT !.blockChunks = @ @@ (b :> c),
                               !.allCreatedChunks = @ \cup {c},
                               !.blockChunkList[b] = EmptyList]
        edge == [block |-> b, chunk |-> c]
    IN  [g1 EXCEPT !.chunkDependencies =
                       IF chunk \in DOMAIN @
                       THEN [@ EXCEPT ![chunk] = Append(@, edge)]
                       ELSE @ @@ (chunk :> <<edge>>),
                   !.queue = Append(@, edge)]

(* iteratorBlock, lines 914-947 *)
iteratorBlock(g, chunk, b) ==
    LET name == asyncBlocks[b].chunkName
        known == b \in DOMAIN g.blockChunks
        named == IF name \in DOMAIN g.namedChunks THEN g.namedChunks[name] ELSE NoChunk
        toInitial == named # NoChunk /\ g.chunkObj[named].initial
        r == addChunk(g, name, BlockModule(b))
        c == IF known THEN g.blockChunks[b]
             ELSE IF toInitial THEN chunk
             ELSE r.chunk
        g1 == IF known THEN g
              ELSE IF toInitial
                   THEN [g EXCEPT !.warnings =
                            Append(@, [type |-> "AsyncDependencyToInitialChunkWarning",
                                       chunkName |-> name, module |-> BlockModule(b)])]
              ELSE [r.g EXCEPT !.blockChunks = @ @@ (b :> c),
                               !.allCreatedChunks = @ \cup {c},
                               !.blockChunkList[b] = EmptyList]
        edge == [block |-> b, chunk |-> c]
    IN  [g1 EXCEPT !.chunkDependencies =
                       IF chunk \in DOMAIN @
                       THEN [@ EXCEPT ![chunk] = Append(@, edge)]
                       ELSE @ @@ (chunk :> <<edge>>),
                   !.queue = Append(@, edge)]

RECURSIVE IterateDependencies(_, _, _, _)
IterateDependencies(g, chunk, ds, i) ==
    IF i > Len(ds) THEN g
    ELSE IterateDependencies(iteratorDependency(g, chunk, ds[i]), chunk, ds, i + 1)

RECURSIVE IterateBlocks(_, _, _, _)
IterateBlocks(g, chunk, bs, i) ==
    IF i > Len(bs) THEN g
    ELSE IterateBlocks(iteratorBlock(g, chunk, bs[i]), chunk, bs, i + 1)

(* one iteration of the loop of lines 980-997 *)
partOneIteration(g) ==
    LET queueItem == g.queue[Len(g.queue)]
        g0 == [g EXCEPT !.queue = SubSeq(@, 1, Len(@) - 1)]
        g1 == IterateDependencies(g0, queueItem.chunk,
                                  BlockDependencies(queueItem.block), 1)
    IN  IterateBlocks(g1, queueItem.chunk, BlockBlocks(queueItem.block), 1)

(* the loop of lines 980-997, until the queue is empty *)
RECURSIVE PartOneLoop(_)
PartOneLoop(g) ==
    IF g.queue = <<>> THEN g ELSE PartOneLoop(partOneIteration(g))

(* part one, lines 898-997, and the set-up of part two, lines 1001-1027 *)
partOne ==
    /\ sealPc = "partOne"
    /\ SetG(PartOneLoop(G))
    /\ queue2' = [i \in DOMAIN inputChunks |->
                    [chunk |-> inputChunks[i], availableModules |-> {}]]
    /\ minAvailableModulesMap' = <<>>
    /\ sealPc' = "partTwo"
    /\ UNCHANGED <<modules, buildVars, labelVars, sealVars, idVars, graphVars, inputChunks>>

(***************************************************************************)
(* processDependenciesBlocksForChunks, part two (lines 999-1095).          *)
(***************************************************************************)

(* a variant of areModulesAvailable that is satisfied with one available   *)
(* module                                                                  *)
areModulesAvailable_OneSuffices(g, chunk, availableModules) ==
    g.chunkObj[chunk].modules \cap availableModules # {}

(* areModulesAvailable, lines 1009-1015 *)
areModulesAvailable(g, chunk, availableModules) ==
    g.chunkObj[chunk].modules \subseteq availableModules

(* filterFn, lines 1018-1025 *)
filterFn(g, dep, newAvailableModules) ==
    ~areModulesAvailable(g, dep.chunk, newAvailableModules)

(* lines 1070-1086: block and chunk of one remaining edge are connected *)
connectEdge(g, chunk, dep) ==
    LET depChunk == dep.chunk
        depBlock == dep.block
        newBlock == depBlock \notin g.chunkObj[depChunk].blocks
        g1 == IF ~newBlock THEN g
              ELSE IF ~g.blockChunkList[depBlock].init
                   THEN [g EXCEPT !.threw = TRUE]
              ELSE [g EXCEPT !.chunkObj[depChunk].blocks = @ \cup {depBlock},
                             !.blockChunkList[depBlock].list = Append(@, depChunk)]
    IN  IF g1.threw \/ depChunk \in g1.chunkObj[chunk].chunks THEN g1
        ELSE [g1 EXCEPT !.chunkObj[chunk].chunks = @ \cup {depChunk},
                        !.chunkObj[depChunk].parents = @ \cup {chunk}]

RECURSIVE ConnectEdges(_, _, _, _)
ConnectEdges(g, chunk, deps, i) ==
    IF i > Len(deps) \/ g.threw THEN g
    ELSE ConnectEdges(connectEdge(g, chunk, deps[i]), chunk, deps, i + 1)

(* nextChunks, lines 1069 and 1085: the chunks of the edges, each once, in *)
(* the order of their first edge                                           *)
RECURSIVE NextChunks(_, _, _)
NextChunks(deps, i, acc) ==
    IF i > Len(deps) THEN acc
    ELSE NextChunks(deps, i + 1,
                    IF \E k \in DOMAIN acc : acc[k] = deps[i].chunk
                    THEN acc ELSE Append(acc, deps[i].chunk))

(* a variant of skipQueueItem that traverses a chunk again although its    *)
(* minimal available modules did not shrink                                *)
skipQueueItem_NoShrinkTest(known, deletedModules, deps) ==
    deps = <<>>

(* lines 1040-1058: the queue item is dropped (`continue`) when the chunk  *)
(* is known and its minimal available modules did not shrink, or when the  *)
(* chunk has no edges                                                      *)
skipQueueItem(known, deletedModules, deps) ==
    (known /\ ~deletedModules) \/ deps = <<>>

(* one iteration of the loop of lines 1030-1095, on the chunk graph g, the  *)
(* queue q2 and the map of the minimal available modules                   *)
partTwoIteration(g, q2, map) ==
    LET queueItem == Head(q2)
        chunk == queueItem.chunk
        first == chunk \notin DOMAIN map
        shrunk == IF first THEN queueItem.availableModules
                  ELSE map[chunk] \cap queueItem.availableModules
        deletedModules == ~first /\ shrunk # map[chunk]
        availableModules == shrunk
        deps == IF chunk \in DOMAIN g.chunkDependencies
                THEN g.chunkDependencies[chunk] ELSE <<>>
        newAvailableModules == availableModules \cup g.chunkObj[chunk].modules
        Keep(dep) == filterFn(g, dep, newAvailableModules)
        filteredDeps == SelectSeq(deps, Keep)
        g1 == ConnectEdges(g, chunk, filteredDeps, 1)
        nextChunks == NextChunks(filteredDeps, 1, <<>>)
        map1 == IF first THEN map @@ (chunk :> shrunk) ELSE [map EXCEPT ![chunk] = shrunk]
    IN  IF skipQueueItem(~first, deletedModules, deps)
        THEN [g |-> g, queue2 |-> Tail(q2), map |-> map1]
        ELSE [g |-> g1,
              queue2 |-> IF g1.threw THEN q2
                         ELSE Tail(q2) \o
                              [i \in DOMAIN nextChunks |->
                                 [chunk |-> nextChunks[i],
                                  availableModules |-> newAvailableModules]],
              map |-> map1]

partTwoStep ==
    /\ sealPc = "partTwo"
    /\ queue2 # <<>>
    /\ LET r == partTwoIteration(G, queue2, minAvailableModulesMap)
       IN  /\ SetG(r.g)
           /\ queue2' = r.queue2
           /\ minAvailableModulesMap' = r.map
           /\ sealPc' = IF r.g.threw THEN "threw" ELSE sealPc
    /\ UNCHANGED <<modules, buildVars, labelVars, sealVars, idVars, graphVars, inputChunks>>

(* Chunk.remove(reason): the chunk is disconnected from its modules, from  *)
(* its child chunks and from its blocks.                                   *)
ChunkRemove(g, c) ==
    [g EXCEPT !.chunkObj =
                 [k \in DOMAIN @ |->
                    IF k = c THEN [@[k] EXCEPT !.modules = {}, !.chunks = {}, !.blocks = {}]
                    ELSE [@[k] EXCEPT !.parents = @ \ {c}]],
              !.moduleChunks = [m \in DOMAIN @ |-> @[m] \ {c}],
              !.blockChunkList =
                 [b \in DOMAIN @ |->
                    [@[b] EXCEPT !.list = SelectSeq(@, LAMBDA x : x # c)]]]

RECURSIVE RemoveAll(_, _)
RemoveAll(g, cs) ==
    IF cs = {} THEN g
    ELSE LET c == CHOOSE x \in cs : TRUE
         IN  RemoveAll(ChunkRemove(g, c), cs \ {c})

(* lines 1097-1101: the loop of part two has ended *)
removeUnconnected ==
    /\ sealPc = "partTwo"
    /\ queue2 = <<>>
    /\ SetG(RemoveAll(G, {c \in allCreatedChunks : chunkObj[c].parents = {}}))
    /\ sealPc' = "partitioned"
    /\ UNCHANGED <<modules, buildVars, labelVars, sealVars, idVars, graphVars, inputChunks, queue2,
                   minAvailableModulesMap>>

(***************************************************************************)
(* The module graphs: at most MaxSyncEdges dependencies between distinct   *)
(* modules, at most two async blocks with one to MaxBlockDeps dependencies *)
(* each: the first named "x" or, like the entry, "main"; the second        *)
(* unnamed or named "x" and possibly nested in the first.  The entry       *)
(* "main" is module A and an optional second entry is module B.  Every     *)
(* module that has dependencies or blocks is reachable from an entry:      *)
(* compilation builds no other module.                                     *)
(***************************************************************************)
SyncEdgeSets ==
    {S \in SUBSET {e \in GraphModules \X GraphModules : e[1] # e[2]} :
        Cardinality(S) <= MaxSyncEdges}

DepsOf(targets) ==
    LET In(m) == m \in targets
        ts == SelectSeq(ModSeq, In)
    IN  [i \in DOMAIN ts |-> Dep(ts[i], FALSE)]

BlockDepSets ==
    {T \in SUBSET GraphModules : Cardinality(T) >= 1 /\ Cardinality(T) <= MaxBlockDeps}

BlockRecords(parents, names) ==
    {[parent |-> p, chunkName |-> n, dependencies |-> DepsOf(T)] :
        p \in parents, n \in names, T \in BlockDepSets}

AsyncBlockSets ==
    {<<>>}
    \cup {("b1" :> r1) : r1 \in BlockRecords(GraphModules, {"x", "main"})}
    \cup {("b1" :> r1) @@ ("b2" :> r2) :
            r1 \in BlockRecords(GraphModules, {"x", "main"}),
            r2 \in BlockRecords(GraphModules \cup {"b1"}, {NoName, "x"})}

PreparedChunkLists ==
    {<<[name |-> "main", module |-> "A"]>>,
     <<[name |-> "main", module |-> "A"], [name |-> "second", module |-> "B"]>>}

(* the modules a module or block leads to in one step *)
Successors(deps, blks, x) ==
    ({deps[x][i].module : i \in DOMAIN deps[x]} \ {NoModule})
        \cup {b \in DOMAIN blks : blks[b].parent = x}

RECURSIVE ReachFrom(_, _, _)
ReachFrom(deps, blks, S) ==
    LET all == [x \in ModNames \cup DOMAIN blks |->
                  IF x \in ModNames THEN deps[x] ELSE blks[x].dependencies]
        T == S \cup UNION {Successors(all, blks, x) : x \in S}
    IN  IF T = S THEN S ELSE ReachFrom(deps, blks, T)

AllBuilt(deps, blks, slots) ==
    LET R == ReachFrom(deps, blks, {slots[i].module : i \in DOMAIN slots})
    IN  /\ \A m \in ModNames : deps[m] # <<>> => m \in R
        /\ DOMAIN blks \subseteq R

(* Module graphs given one by one.  A dependency list stands for the       *)
(* dependencies of block.variables followed by block.dependencies.         *)
NoBlocks == [b \in {} |-> [parent |-> "A", chunkName |-> NoName, dependencies |-> <<>>]]

(* A -> B and A -> [async "x": C], C -> D (spec 8, scenario 4) *)
AsyncSplitGraph ==
    [deps |-> [m \in ModNames |->
                 CASE m = "A" -> DepsOf({"B"}) [] m = "C" -> DepsOf({"D"}) [] OTHER -> <<>>],
     blocks |-> ("b1" :> [parent |-> "A", chunkName |-> "x", dependencies |-> DepsOf({"C"})]),
     slots |-> <<[name |-> "main", module |-> "A"]>>]

(* A has a weak dependency on B, a dependency without module and a         *)
(* dependency on E; E has an async block "x" with a dependency on B and a  *)
(* weak dependency on D                                                    *)
WeakGraph ==
    [deps |-> [m \in ModNames |->
                 IF m = "A" THEN <<Dep("B", TRUE), Dep(NoModule, FALSE), Dep("E", FALSE)>>
                 ELSE <<>>],
     blocks |-> ("b1" :> [parent |-> "E", chunkName |-> "x",
                          dependencies |-> <<Dep("B", FALSE), Dep("D", TRUE)>>]),
     slots |-> <<[name |-> "main", module |-> "A"]>>]

(* the chain A -> B -> C (spec 8, scenario 2) *)
ChainGraph ==
    [deps |-> [m \in ModNames |->
                 CASE m = "A" -> DepsOf({"B"}) [] m = "B" -> DepsOf({"C"}) [] OTHER -> <<>>],
     blocks |-> NoBlocks,
     slots |-> <<[name |-> "main", module |-> "A"]>>]

GivenGraphs == {AsyncSplitGraph, WeakGraph, ChainGraph}

(* compilation.modules: the modules that were built, i.e. those an entry   *)
(* leads to                                                                *)
BuiltModules(deps, blks, slots) ==
    LET R == ReachFrom(deps, blks, {slots[i].module : i \in DOMAIN slots})
        Built(m) == m \in R
    IN  SelectSeq(ModSeq, Built)

InitChunkGraph ==
    /\ \/ /\ \E S \in SyncEdgeSets :
                moduleDeps = [m \in ModNames |->
                                DepsOf({e[2] : e \in {f \in S : f[1] = m}})]
          /\ asyncBlocks \in AsyncBlockSets
          /\ preparedChunks \in PreparedChunkLists
          /\ AllBuilt(moduleDeps, asyncBlocks, preparedChunks)
       \/ \E g \in GivenGraphs :
             /\ moduleDeps = g.deps
             /\ asyncBlocks = g.blocks
             /\ preparedChunks = g.slots
    /\ modules = BuiltModules(moduleDeps, asyncBlocks, preparedChunks)
    /\ chunks = <<>>
    /\ chunkObj = <<>>
    /\ namedChunks = <<>>
    /\ moduleChunks = [m \in ModNames |-> {}]
    /\ blockChunkList = [b \in DOMAIN asyncBlocks |-> NullList]
    /\ warnings = <<>>
    /\ sealPc = "seal"
    /\ inputChunks = <<>>
    /\ queue = <<>>
    /\ blockChunks = <<>>
    /\ chunkDependencies = <<>>
    /\ allCreatedChunks = {}
    /\ queue2 = <<>>
    /\ minAvailableModulesMap = <<>>
    /\ InitNoIds
    /\ InitNoBuild
    /\ InitNoLabel
    /\ InitNoSeal

NextChunkGraph ==
    \/ sealPreparedChunks
    \/ partOne
    \/ partTwoStep
    \/ removeUnconnected

SpecChunkGraph == InitChunkGraph /\ [][NextChunkGraph]_vars

(***************************************************************************)
(* Claims on the chunk graph.                                              *)
(***************************************************************************)

SeqToSet(q) == {q[i] : i \in DOMAIN q}

(* the modules the dependencies of a block bring into the block's chunk:   *)
(* those of its non-weak dependencies that have a module                   *)
BlockTargets(b) ==
    {d.module : d \in {e \in SeqToSet(BlockDependencies(b)) :
                          e.module # NoModule /\ ~e.weak}}

(* entry A depends on B and has an async block named "x" whose             *)
(* dependencies are B and E (spec 8, scenario 5)                           *)
SharedAsyncScenario ==
    /\ preparedChunks = <<[name |-> "main", module |-> "A"]>>
    /\ moduleDeps = [m \in ModNames |-> IF m = "A" THEN DepsOf({"B"}) ELSE <<>>]
    /\ asyncBlocks = ("b1" :> [parent |-> "A", chunkName |-> "x",
                               dependencies |-> DepsOf({"B", "E"})])

(* C9: after processDependenciesBlocksForChunks every chunk of             *)
(* compilation.chunks was an input chunk or has at least one parent: a     *)
(* chunk created for an async block that ends with no parent is no longer  *)
(* in compilation.chunks.                                                  *)
C9_ChunksReachable ==
    sealPc = "partitioned" =>
        \A i \in DOMAIN chunks :
            \/ chunks[i] \in SeqToSet(inputChunks)
            \/ chunkObj[chunks[i]].parents # {}

RECURSIVE SyncClosure(_)
SyncClosure(S) ==
    LET T == S \cup UNION {BlockTargets(m) : m \in S}
    IN  IF T = S THEN S ELSE SyncClosure(T)

(* the modules and async blocks that S leads to, crossing async blocks *)
RECURSIVE AsyncClosure(_)
AsyncClosure(S) ==
    LET T == S \cup UNION {BlockTargets(x) \cup SeqToSet(BlockBlocks(x)) : x \in S}
    IN  IF T = S THEN S ELSE AsyncClosure(T)

EntryModules == {preparedChunks[i].module : i \in DOMAIN preparedChunks}

(* the modules that block b leads to and no entry leads to without         *)
(* crossing an async block                                                 *)
OnlyThrough(b) == SyncClosure(BlockTargets(b)) \ SyncClosure(EntryModules)

(* the chunks in which part one met block b *)
ChunksContaining(b) ==
    {c \in DOMAIN chunkDependencies :
        \E i \in DOMAIN chunkDependencies[c] : chunkDependencies[c][i].block = b}

AsyncSplitScenario ==
    /\ moduleDeps = AsyncSplitGraph.deps
    /\ asyncBlocks = AsyncSplitGraph.blocks
    /\ preparedChunks = AsyncSplitGraph.slots

(* C11: after partitioning an entry chunk contains exactly the modules     *)
(* that its entry module leads to through non-weak dependencies with a     *)
(* module without crossing an async block; the modules that only an async  *)
(* block leads to are in the chunk of that block and in no entry chunk,    *)
(* and that chunk has the chunk containing the block as parent.  For       *)
(* A -> B, A -> [async x: C -> D] the chunks are main = {A, B} and         *)
(* x = {C, D} with x.parents = {main}.                                     *)
C11_EntryChunkIsSyncClosure ==
    sealPc = "partitioned" =>
        /\ \A i \in DOMAIN inputChunks :
              chunkObj[inputChunks[i]].modules =
                  SyncClosure({chunkObj[inputChunks[i]].entryModule})
        /\ \A b \in AsyncClosure(EntryModules) \cap DOMAIN asyncBlocks :
              OnlyThrough(b) # {} =>
                  /\ b \in DOMAIN blockChunks
                  /\ OnlyThrough(b) \subseteq chunkObj[blockChunks[b]].modules
                  /\ \A i \in DOMAIN inputChunks :
                        OnlyThrough(b) \cap chunkObj[inputChunks[i]].modules = {}
                  /\ ChunksContaining(b) \subseteq chunkObj[blockChunks[b]].parents
        /\ AsyncSplitScenario =>
              /\ Len(chunks) = 2
              /\ chunkObj[namedChunks["main"]].modules = {"A", "B"}
              /\ chunkObj[namedChunks["x"]].modules = {"C", "D"}
              /\ chunkObj[namedChunks["x"]].parents = {namedChunks["main"]}

(* the basic chunk graph has an edge from chunk c to chunk d *)
BasicEdge(c, d) ==
    /\ c \in DOMAIN chunkDependencies
    /\ \E i \in DOMAIN chunkDependencies[c] : chunkDependencies[c][i].chunk = d

(* the size of what part two can still do: the modules that can still be   *)
(* deleted from the sets of minAvailableModulesMap (a chunk that is not in *)
(* the map counts as one more than all modules), weighted by the number of *)
(* chunks an iteration can enqueue, plus the queue items                    *)
RECURSIVE Sum(_, _)
Sum(f, S) == IF S = {} THEN 0
             ELSE LET x == CHOOSE y \in S : TRUE IN f[x] + Sum(f, S \ {x})

Remaining(map, q) ==
    LET left == [c \in DOMAIN chunkObj |->
                   IF c \in DOMAIN map THEN Cardinality(map[c])
                   ELSE Cardinality(ModNames) + 1]
    IN  (Len(chunks) + 1) * Sum(left, DOMAIN chunkObj) + Len(q)

(* C12: part two terminates, its queue becomes empty, for every basic      *)
(* chunk graph, also with chunks that depend on each other cyclically and  *)
(* with a block whose chunk contains the module owning the block: every    *)
(* iteration of its loop completes and makes Remaining, which is never     *)
(* negative, smaller, because it shrinks the set stored for the chunk or   *)
(* drops the queue item without enqueuing anything.                        *)
C12_PartTwoTerminates ==
    [][(sealPc = "partTwo" /\ queue2 # <<>>) =>
          /\ sealPc' = "partTwo"
          /\ Remaining(minAvailableModulesMap', queue2') >= 0
          /\ Remaining(minAvailableModulesMap', queue2')
                < Remaining(minAvailableModulesMap, queue2)]_vars

(* part two has ended on a basic chunk graph in which two chunks depend on *)
(* each other and a block's chunk contains the module owning the block     *)
C12_Witness ==
    /\ sealPc = "partTwo"
    /\ queue2 = <<>>
    /\ \E c, d \in DOMAIN chunkObj : c # d /\ BasicEdge(c, d) /\ BasicEdge(d, c)
    /\ \E b \in DOMAIN blockChunks : BlockModule(b) \in chunkObj[blockChunks[b]].modules
    /\ \E c \in DOMAIN minAvailableModulesMap : minAvailableModulesMap[c] # {}

(* the async blocks whose chunkName names an initial chunk *)
BlocksToInitialChunk ==
    {b \in DOMAIN asyncBlocks :
        /\ asyncBlocks[b].chunkName \in DOMAIN namedChunks
        /\ chunkObj[namedChunks[asyncBlocks[b].chunkName]].initial}

(* the edges of the basic chunk graph recorded for block b, as pairs of    *)
(* the chunk they are recorded for and the chunk they lead to              *)
EdgesOfBlock(b) ==
    {<<c, i>> \in UNION {{c} \X DOMAIN chunkDependencies[c] : c \in DOMAIN chunkDependencies} :
        chunkDependencies[c][i].block = b}

WarningsOfBlock(b) ==
    {i \in DOMAIN warnings :
        /\ warnings[i].type = "AsyncDependencyToInitialChunkWarning"
        /\ warnings[i].chunkName = asyncBlocks[b].chunkName
        /\ warnings[i].module = BlockModule(b)}

(* C29: for an async block whose chunkName names an existing initial       *)
(* chunk, part one creates no chunk, pushes an                             *)
(* AsyncDependencyToInitialChunkWarning each time it meets the block, and  *)
(* adds the modules of the block's non-weak dependencies to the chunk that *)
(* contains the block: every edge recorded for the block leads from a      *)
(* chunk to that same chunk.  Part two drops that edge: the chunk is not   *)
(* its own child or parent, the block is in no chunk's blocks, its chunks  *)
(* list stays uninitialised and no iteration throws.                       *)
C29_BlockToInitialChunkFoldsIn ==
    sealPc \in {"partTwo", "threw", "partitioned"} =>
        /\ allCreatedChunks = {blockChunks[x] : x \in DOMAIN blockChunks}
        /\ \A b \in BlocksToInitialChunk :
              /\ b \notin DOMAIN blockChunks
              /\ EdgesOfBlock(b) # {}
              /\ Cardinality(WarningsOfBlock(b)) = Cardinality(EdgesOfBlock(b))
              /\ \A e \in EdgesOfBlock(b) :
                    /\ chunkDependencies[e[1]][e[2]].chunk = e[1]
                    /\ e[1] \notin chunkObj[e[1]].chunks
                    /\ e[1] \notin chunkObj[e[1]].parents
                    /\ (sealPc = "partTwo" \/ e[1] \in SeqToSet(inputChunks)
                          \/ chunkObj[e[1]].parents # {}) =>
                            BlockTargets(b) \subseteq chunkObj[e[1]].modules
              /\ blockChunkList[b] = NullList
              /\ \A c \in DOMAIN chunkObj : b \notin chunkObj[c].blocks
              /\ sealPc # "threw"

(* partitioning has ended; a block of entry "second" names the initial     *)
(* chunk "main": the module of its dependency is in the chunk "second"     *)
(* and not in "main"                                                       *)
C29_Witness ==
    /\ sealPc = "partitioned"
    /\ \E b \in BlocksToInitialChunk :
          /\ asyncBlocks[b].chunkName = "main"
          /\ "second" \in DOMAIN namedChunks
          /\ WarningsOfBlock(b) # {}
          /\ \E m \in BlockTargets(b) :
                /\ m \in chunkObj[namedChunks["second"]].modules
                /\ m \notin chunkObj[namedChunks["main"]].modules
          /\ BlockModule(b) \notin chunkObj[namedChunks["main"]].modules

(* the paths of connected chunks from an input chunk to chunk P that pass  *)
(* no chunk twice and none of avoid: for each path the set of the chunks   *)
(* before P                                                                *)
RECURSIVE PathsTo(_, _)
PathsTo(P, avoid) ==
    (IF P \in SeqToSet(inputChunks) THEN {{}} ELSE {})
        \cup UNION {{S \cup {c} : S \in PathsTo(c, avoid \cup {P})} :
                       c \in chunkObj[P].parents \ (avoid \cup {P})}

ModulesOf(S) == UNION {chunkObj[c].modules : c \in S}

(* the loop of part two has ended *)
PartTwoEnded == sealPc = "partTwo" /\ queue2 = <<>>

(* the edge of the basic chunk graph was connected: its chunk is a child   *)
(* of P and a member of the chunks of its block                            *)
Connected(P, edge) ==
    /\ edge.chunk \in chunkObj[P].chunks
    /\ P \in chunkObj[edge.chunk].parents
    /\ edge.chunk \in SeqToSet(blockChunkList[edge.block].list)
    /\ edge.block \in chunkObj[edge.chunk].blocks

(* C25: when the loop of part two has ended, for every edge {block,        *)
(* depChunk} recorded for a chunk P that part two reached, depChunk is a   *)
(* child of P and a member of block.chunks, or every module of depChunk is *)
(* in P or in the minimal available modules stored for P.  That set holds  *)
(* only modules that, on every path of connected chunks from an input      *)
(* chunk to P, are members of a chunk before P.  No chunk is its own child *)
(* or parent.                                                              *)
C25_PruningIsSafe ==
    PartTwoEnded =>
        /\ \A P \in DOMAIN minAvailableModulesMap :
              /\ P \in DOMAIN chunkDependencies =>
                    \A i \in DOMAIN chunkDependencies[P] :
                        LET edge == chunkDependencies[P][i]
                        IN  \/ Connected(P, edge)
                            \/ chunkObj[edge.chunk].modules \subseteq
                                  chunkObj[P].modules \cup minAvailableModulesMap[P]
              /\ PathsTo(P, {}) # {}
              /\ \A S \in PathsTo(P, {}) : minAvailableModulesMap[P] \subseteq ModulesOf(S)
        /\ \A c \in DOMAIN chunkObj :
              c \notin chunkObj[c].chunks /\ c \notin chunkObj[c].parents

(* part two has ended; a chunk P that was connected to its parents, with   *)
(* two paths leading to it, has an edge that was dropped because of a      *)
(* module that is not in P but in its minimal available modules            *)
C25_Witness ==
    /\ PartTwoEnded
    /\ \E P \in DOMAIN minAvailableModulesMap \cap DOMAIN chunkDependencies :
          /\ \E i \in DOMAIN chunkDependencies[P] :
                LET edge == chunkDependencies[P][i]
                IN  /\ ~Connected(P, edge)
                    /\ edge.chunk # P
                    /\ ~(chunkObj[edge.chunk].modules \subseteq chunkObj[P].modules)
          /\ \E Q \in DOMAIN chunkDependencies \ {P} :
                \E i \in DOMAIN chunkDependencies[Q] :
                    chunkDependencies[Q][i].chunk = P /\ Connected(Q, chunkDependencies[Q][i])
          /\ Cardinality(PathsTo(P, {})) >= 2
          /\ minAvailableModulesMap[P] # {}

(***************************************************************************)
(* The labelling of the modules in seal(): assignIndex (lines 782-843) and *)
(* assignDepth (lines 845-886), called for the module of every slot of     *)
(* preparedChunks (lines 614-627).  Both work off a local stack of         *)
(* closures; an action is one iteration of `while(queue.length)            *)
(* queue.pop()()`.                                                         *)
(***************************************************************************)
MaxLabelEdges == 4

NoDep == Dep(NoModule, FALSE)

(* the closures on the stack: what they call, and with which arguments *)
LabelItem(op, block, d, n) == [op |-> op, block |-> block, d |-> d, depth |-> n]

(* the state the labelling works on, as one record *)
L ==
    [index |-> index, index2 |-> index2, depth |-> depth,
     nextFreeModuleIndex |-> nextFreeModuleIndex,
     nextFreeModuleIndex2 |-> nextFreeModuleIndex2,
     queue |-> labelQueue]

SetL(l) ==
    /\ index' = l.index
    /\ index2' = l.index2
    /\ depth' = l.depth
    /\ nextFreeModuleIndex' = l.nextFreeModuleIndex
    /\ nextFreeModuleIndex2' = l.nextFreeModuleIndex2
    /\ labelQueue' = l.queue

Reverse(q) == [i \in DOMAIN q |-> q[Len(q) + 1 - i]]

(* a variant of assignIndexToDependencyBlock that pushes the dependencies  *)
(* in array order, so that the last one is popped first                    *)
assignIndexToDependencyBlock_ForwardPush(l, block) ==
    LET blocks == BlockBlocks(block)
        allDependencies == BlockDependencies(block)
    IN  [l EXCEPT !.queue =
            @ \o [i \in DOMAIN blocks |->
                    LabelItem("assignIndexToDependencyBlock", Reverse(blocks)[i], NoDep, 0)]
              \o [i \in DOMAIN allDependencies |->
                    LabelItem("assignIndexToDependency", NoModule, allDependencies[i], 0)]]

(* assignIndexToDependencyBlock, lines 804-830: the blocks are pushed from *)
(* the last to the first, then the dependencies from the last to the first *)
assignIndexToDependencyBlock(l, block) ==
    LET blocks == BlockBlocks(block)
        allDependencies == BlockDependencies(block)
    IN  [l EXCEPT !.queue =
            @ \o [i \in DOMAIN blocks |->
                    LabelItem("assignIndexToDependencyBlock", Reverse(blocks)[i], NoDep, 0)]
              \o [i \in DOMAIN allDependencies |->
                    LabelItem("assignIndexToDependency", NoModule,
                              Reverse(allDependencies)[i], 0)]]

(* assignIndexToModule, lines 785-796 *)
assignIndexToModule(l, module) ==
    IF l.index[module] # NoLabel THEN l
    ELSE assignIndexToDependencyBlock(
            [l EXCEPT !.index[module] = l.nextFreeModuleIndex,
                      !.nextFreeModuleIndex = @ + 1,
                      !.queue = Append(@, LabelItem("leave", module, NoDep, 0))],
            module)

(* assignIndexToDependency, lines 798-802 *)
assignIndexToDependency(l, dependency) ==
    IF dependency.module = NoModule THEN l
    ELSE [l EXCEPT !.queue =
            Append(@, LabelItem("assignIndexToModule", dependency.module, NoDep, 0))]

(* line 791: the closure `() => module.index2 = _this.nextFreeModuleIndex2++` *)
leaveModule(l, module) ==
    [l EXCEPT !.index2[module] = l.nextFreeModuleIndex2,
              !.nextFreeModuleIndex2 = @ + 1]

(* assignDepthToDependency, lines 855-859 *)
assignDepthToDependency(l, dependency, n) ==
    IF dependency.module = NoModule THEN l
    ELSE [l EXCEPT !.queue =
            Append(@, LabelItem("assignDepthToModule", dependency.module, NoDep, n))]

(* assignDepthToDependencyBlock, lines 861-877: the dependencies in array  *)
(* order, then the nested blocks in array order                            *)
RECURSIVE assignDepthToDependencyBlock(_, _, _)
RECURSIVE AssignDepthToDependencies(_, _, _, _)
RECURSIVE AssignDepthToBlocks(_, _, _, _)
AssignDepthToDependencies(l, ds, i, n) ==
    IF i > Len(ds) THEN l
    ELSE AssignDepthToDependencies(assignDepthToDependency(l, ds[i], n), ds, i + 1, n)

AssignDepthToBlocks(l, bs, i, n) ==
    IF i > Len(bs) THEN l
    ELSE AssignDepthToBlocks(assignDepthToDependencyBlock(l, bs[i], n), bs, i + 1, n)

assignDepthToDependencyBlock(l, block, n) ==
    AssignDepthToBlocks(AssignDepthToDependencies(l, BlockDependencies(block), 1, n),
                        BlockBlocks(block), 1, n)

(* a variant of assignDepthToModule that leaves every module that has a    *)
(* depth alone                                                             *)
assignDepthToModule_KeepsFirst(l, module, n) ==
    IF l.depth[module] # NoLabel THEN l
    ELSE assignDepthToDependencyBlock([l EXCEPT !.depth[module] = n], module, n + 1)

(* assignDepthToModule, lines 846-853 *)
assignDepthToModule(l, module, n) ==
    IF l.depth[module] # NoLabel /\ l.depth[module] <= n THEN l
    ELSE assignDepthToDependencyBlock([l EXCEPT !.depth[module] = n], module, n + 1)

(* `queue.pop()()`, lines 841 and 884 *)
labelIteration(l) ==
    LET item == l.queue[Len(l.queue)]
        l0 == [l EXCEPT !.queue = SubSeq(@, 1, Len(@) - 1)]
    IN  CASE item.op = "assignIndexToModule" -> assignIndexToModule(l0, item.block)
          [] item.op = "leave" -> leaveModule(l0, item.block)
          [] item.op = "assignIndexToDependencyBlock" ->
                assignIndexToDependencyBlock(l0, item.block)
          [] item.op = "assignIndexToDependency" -> assignIndexToDependency(l0, item.d)
          [] item.op = "assignDepthToModule" ->
                assignDepthToModule(l0, item.block, item.depth)

(* lines 832-834 and 879-881: the stack a call starts with *)
assignIndexStart(module) == <<LabelItem("assignIndexToModule", module, NoDep, 0)>>
assignDepthStart(module) == <<LabelItem("assignDepthToModule", module, NoDep, 0)>>

(* seal(), lines 614-626: the indices start from 0 and the forEach reaches *)
(* assignIndex(module) for the first slot                                  *)
sealLabelling ==
    /\ labelPc = "seal"
    /\ nextFreeModuleIndex' = 0
    /\ nextFreeModuleIndex2' = 0
    /\ IF preparedChunks = <<>>
       THEN labelPc' = "labelled" /\ UNCHANGED <<labelQueue, labelSlot>>
       ELSE /\ labelSlot' = 1
            /\ labelQueue' = assignIndexStart(preparedChunks[1].module)
            /\ labelPc' = "assignIndex"
    /\ UNCHANGED <<index, index2, depth>>
    /\ UNCHANGED <<modules, chunks, warnings, idVars, graphVars, chunkVars, buildVars, sealVars>>

(* one iteration of the loop of assignIndex, lines 840-842; when the stack *)
(* is empty assignIndex returns and seal() calls assignDepth(module)       *)
assignIndex ==
    /\ labelPc = "assignIndex"
    /\ labelQueue # <<>>
    /\ LET l == labelIteration(L)
       IN  IF l.queue # <<>>
           THEN SetL(l) /\ UNCHANGED labelPc
           ELSE /\ SetL([l EXCEPT !.queue =
                            assignDepthStart(preparedChunks[labelSlot].module)])
                /\ labelPc' = "assignDepth"
    /\ UNCHANGED labelSlot
    /\ UNCHANGED <<modules, chunks, warnings, idVars, graphVars, chunkVars, buildVars, sealVars>>

(* one iteration of the loop of assignDepth, lines 883-885; when the stack *)
(* is empty assignDepth returns and the forEach of seal() goes on with the *)
(* next slot                                                               *)
assignDepth ==
    /\ labelPc = "assignDepth"
    /\ labelQueue # <<>>
    /\ LET l == labelIteration(L)
       IN  IF l.queue # <<>>
           THEN SetL(l) /\ UNCHANGED <<labelPc, labelSlot>>
           ELSE IF labelSlot < Len(preparedChunks)
           THEN /\ SetL([l EXCEPT !.queue =
                            assignIndexStart(preparedChunks[labelSlot + 1].module)])
                /\ labelSlot' = labelSlot + 1
                /\ labelPc' = "assignIndex"
           ELSE /\ SetL(l)
                /\ labelPc' = "labelled"
                /\ UNCHANGED labelSlot
    /\ UNCHANGED <<modules, chunks, warnings, idVars, graphVars, chunkVars, buildVars, sealVars>>

(***************************************************************************)
(* The module graphs that are labelled: at most MaxLabelEdges dependencies *)
(* between the modules (a module may depend on itself, and modules on each *)
(* other), listed in the order of the modules or in the opposite order, at *)
(* most one async block, one or two entries; and the graphs given one by   *)
(* one.                                                                    *)
(***************************************************************************)
LabelEdgeSets ==
    {S \in SUBSET (GraphModules \X GraphModules) : Cardinality(S) <= MaxLabelEdges}

LabelBlockSets ==
    {<<>>} \cup {("b1" :> r1) : r1 \in BlockRecords(GraphModules, {"x"})}

InitLabel ==
    /\ \/ /\ \E S \in LabelEdgeSets, backwards \in BOOLEAN :
                moduleDeps = [m \in ModNames |->
                                LET ds == DepsOf({e[2] : e \in {f \in S : f[1] = m}})
                                IN  IF backwards THEN Reverse(ds) ELSE ds]
          /\ asyncBlocks \in LabelBlockSets
          /\ preparedChunks \in PreparedChunkLists
          /\ AllBuilt(moduleDeps, asyncBlocks, preparedChunks)
       \/ \E g \in GivenGraphs :
             /\ moduleDeps = g.deps
             /\ asyncBlocks = g.blocks
             /\ preparedChunks = g.slots
    /\ modules = BuiltModules(moduleDeps, asyncBlocks, preparedChunks)
    /\ index = [m \in ModNames |-> NoLabel]
    /\ index2 = [m \in ModNames |-> NoLabel]
    /\ depth = [m \in ModNames |-> NoLabel]
    /\ nextFreeModuleIndex = 0
    /\ nextFreeModuleIndex2 = 0
    /\ labelQueue = <<>>
    /\ labelSlot = 0
    /\ labelPc = "seal"
    /\ chunks = <<>>
    /\ chunkObj = <<>>
    /\ namedChunks = <<>>
    /\ moduleChunks = [m \in ModNames |-> {}]
    /\ blockChunkList = [b \in DOMAIN asyncBlocks |-> NullList]
    /\ warnings = <<>>
    /\ sealPc = "idle"
    /\ inputChunks = <<>>
    /\ queue = <<>>
    /\ blockChunks = <<>>
    /\ chunkDependencies = <<>>
    /\ allCreatedChunks = {}
    /\ queue2 = <<>>
    /\ minAvailableModulesMap = <<>>
    /\ InitNoIds
    /\ InitNoBuild
    /\ InitNoSeal

NextLabel ==
    \/ sealLabelling
    \/ assignIndex
    \/ assignDepth

SpecLabel == InitLabel /\ [][NextLabel]_vars

(***************************************************************************)
(* Claims on the labelling.                                                *)
(***************************************************************************)

(* the async blocks of a module or block, nested ones included *)
RECURSIVE NestedBlocks(_)
NestedBlocks(b) ==
    LET bs == SeqToSet(BlockBlocks(b))
    IN  bs \cup UNION {NestedBlocks(c) : c \in bs}

(* the modules one dependency edge away from module m: the modules of its  *)
(* dependencies and of the dependencies of its blocks                      *)
EdgeTargets(m) ==
    UNION {{d.module : d \in SeqToSet(BlockDependencies(b))} : b \in {m} \cup NestedBlocks(m)}
        \ {NoModule}

(* the minimum number of dependency edges from a module of `frontier`,     *)
(* whose modules are n edges away from an entry; NoLabel where no entry    *)
(* leads to the module                                                     *)
RECURSIVE MinEdges(_, _, _)
MinEdges(found, frontier, n) ==
    IF frontier = {} THEN found
    ELSE LET now == [m \in ModNames |-> IF m \in frontier THEN n ELSE found[m]]
             next == {t \in UNION {EdgeTargets(m) : m \in frontier} : now[t] = NoLabel}
         IN  MinEdges(now, next, n + 1)

MinDepth == MinEdges([m \in ModNames |-> NoLabel], EntryModules, 0)

(* what assignDepth can still do: the depths it can still lower (a module  *)
(* without depth counts as deeper than any module), weighted by the number *)
(* of closures an iteration can push, plus the closures on the stack       *)
DepthRemaining(d, q) ==
    LET left == [m \in ModNames |->
                   IF d[m] = NoLabel THEN Cardinality(ModNames) + 1 ELSE d[m]]
        pushes == [b \in ModNames \cup DOMAIN asyncBlocks |-> Len(BlockDependencies(b))]
    IN  (Sum(pushes, DOMAIN pushes) + 1) * Sum(left, ModNames) + Len(q)

(* C13: when seal() has labelled the entries, every module that an entry   *)
(* leads to has as depth the minimum number of dependency edges from an    *)
(* entry module (0 for an entry), also on graphs with cycles and with      *)
(* modules that several entries lead to; assignDepth terminates: each      *)
(* iteration of its loop makes DepthRemaining, which is never negative,    *)
(* smaller.                                                                *)
C13_DepthIsMinimumEdgeCount ==
    [][/\ labelPc' = "labelled" => depth' = MinDepth
       /\ (labelPc = "assignDepth" /\ labelPc' = "assignDepth") =>
             /\ DepthRemaining(depth', labelQueue') >= 0
             /\ DepthRemaining(depth', labelQueue') < DepthRemaining(depth, labelQueue)]_vars

(* A lists its dependency on E before the one on B, B depends on E and E   *)
(* on A: E is first given depth 2 through B and then depth 1               *)
C13_Witness ==
    /\ labelPc = "labelled"
    /\ moduleDeps["A"] = <<Dep("E", FALSE), Dep("B", FALSE)>>
    /\ moduleDeps["B"] = <<Dep("E", FALSE)>>
    /\ moduleDeps["E"] = <<Dep("A", FALSE)>>
    /\ depth["A"] = 0 /\ depth["B"] = 1 /\ depth["E"] = 1

(* The depth-first traversal that assignIndex is to perform, written       *)
(* recursively: t.pre lists the modules in the order they are entered,     *)
(* t.post in the order they are left.  Within a block the modules of the   *)
(* dependencies come first, in array order, then the nested blocks.        *)
RECURSIVE EnterModule(_, _)
RECURSIVE EnterBlock(_, _)
RECURSIVE EnterDependencies(_, _, _)
RECURSIVE EnterBlocks(_, _, _)
EnterModule(t, m) ==
    IF m \in SeqToSet(t.pre) THEN t
    ELSE LET inside == EnterBlock([t EXCEPT !.pre = Append(@, m)], m)
         IN  [inside EXCEPT !.post = Append(@, m)]

EnterBlock(t, b) ==
    EnterBlocks(EnterDependencies(t, BlockDependencies(b), 1), BlockBlocks(b), 1)

EnterDependencies(t, ds, i) ==
    IF i > Len(ds) THEN t
    ELSE EnterDependencies(IF ds[i].module = NoModule THEN t
                           ELSE EnterModule(t, ds[i].module),
                           ds, i + 1)

EnterBlocks(t, bs, i) ==
    IF i > Len(bs) THEN t
    ELSE EnterBlocks(EnterBlock(t, bs[i]), bs, i + 1)

RECURSIVE EnterEntries(_, _)
EnterEntries(t, i) ==
    IF i > Len(preparedChunks) THEN t
    ELSE EnterEntries(EnterModule(t, preparedChunks[i].module), i + 1)

Traversal == EnterEntries([pre |-> <<>>, post |-> <<>>], 1)

(* the label of module m when the modules are numbered from 0 along q *)
NumberIn(q, m) ==
    IF m \in SeqToSet(q) THEN (CHOOSE i \in DOMAIN q : q[i] = m) - 1 ELSE NoLabel

ChainScenario ==
    /\ moduleDeps = ChainGraph.deps
    /\ asyncBlocks = ChainGraph.blocks
    /\ preparedChunks = ChainGraph.slots

(* C14: assignIndex labels every module that the root leads to exactly     *)
(* once, also on cyclic graphs: a module that has an index or an index2    *)
(* keeps it, and when all entries are labelled index is the number of the  *)
(* module in depth-first pre-order (dependencies in array order, then      *)
(* nested blocks) and index2 its number in post-order, so that both take   *)
(* exactly the values 0..n-1.  For the chain A -> B -> C the indices are   *)
(* 0, 1, 2.                                                                *)
C14_IndexIsDepthFirstOrder ==
    [][/\ \A m \in ModNames :
             /\ index[m] # NoLabel => index'[m] = index[m]
             /\ index2[m] # NoLabel => index2'[m] = index2[m]
       /\ labelPc' = "labelled" =>
             /\ index' = [m \in ModNames |-> NumberIn(Traversal.pre, m)]
             /\ index2' = [m \in ModNames |-> NumberIn(Traversal.post, m)]
             /\ {index'[m] : m \in ModNames} \ {NoLabel} = 0..(Len(Traversal.pre) - 1)
             /\ {index2'[m] : m \in ModNames} \ {NoLabel} = 0..(Len(Traversal.pre) - 1)
             /\ ChainScenario =>
                   index'["A"] = 0 /\ index'["B"] = 1 /\ index'["C"] = 2]_vars

(* A depends on B and on E, B on A (a cycle), and an async block of A      *)
(* depends on E: B is entered and left before E                            *)
C14_Witness ==
    /\ labelPc = "labelled"
    /\ moduleDeps["A"] = <<Dep("B", FALSE), Dep("E", FALSE)>>
    /\ moduleDeps["B"] = <<Dep("A", FALSE)>>
    /\ asyncBlocks # <<>>
    /\ index["A"] = 0 /\ index["B"] = 1 /\ index["E"] = 2
    /\ index2["B"] = 0 /\ index2["E"] = 1 /\ index2["A"] = 2

(***************************************************************************)
(* seal() and unseal(), lines 597-722.  A pass of seal() labels the        *)
(* entries, builds the chunk graph, gives the ids, hashes and renders; the *)
(* async hooks optimize-tree, additional-assets, optimize-chunk-assets,    *)
(* optimize-assets and after-seal call back in a later turn, with or       *)
(* without an error.  The handlers of the synchronous hooks change         *)
(* nothing, except that additional-chunk-assets may add a file.            *)
(***************************************************************************)
MaxPasses == 3          \* passes of seal() that one seal(callback) call runs

(* the state a pass works on, as one record *)
S ==
    [g |-> G, l |-> L, modules |-> modules, moduleId |-> moduleId,
     chunkId |-> chunkId, chunkIdsArr |-> chunkIdsArr, errors |-> errors,
     moduleHash |-> moduleHash, chunkHash |-> chunkHash, hash |-> hash,
     assets |-> assets, chunkFiles |-> chunkFiles,
     additionalChunkAssets |-> additionalChunkAssets, log |-> sealLog]

SetS(s) ==
    /\ SetG(s.g)
    /\ SetL(s.l)
    /\ modules' = s.modules
    /\ moduleId' = s.moduleId
    /\ chunkId' = s.chunkId
    /\ chunkIdsArr' = s.chunkIdsArr
    /\ errors' = s.errors
    /\ moduleHash' = s.moduleHash
    /\ chunkHash' = s.chunkHash
    /\ hash' = s.hash
    /\ assets' = s.assets
    /\ chunkFiles' = s.chunkFiles
    /\ additionalChunkAssets' = s.additionalChunkAssets
    /\ sealLog' = s.log

(* the operation op has run *)
Logged(s, op) == [s EXCEPT !.log = Append(@, op)]

(* Array.prototype.sort with a comparator on key[x], taken as stable *)
RECURSIVE InsertSorted(_, _, _)
InsertSorted(sorted, x, key) ==
    IF sorted = <<>> THEN <<x>>
    ELSE IF key[Head(sorted)] <= key[x]
    THEN <<Head(sorted)>> \o InsertSorted(Tail(sorted), x, key)
    ELSE <<x>> \o sorted

RECURSIVE SortBy(_, _)
SortBy(q, key) ==
    IF q = <<>> THEN <<>>
    ELSE InsertSorted(SortBy(SubSeq(q, 1, Len(q) - 1), key), q[Len(q)], key)

(* assignIndex(module) and assignDepth(module), lines 782-843 and 845-886: *)
(* the loop runs until the stack is empty                                  *)
RECURSIVE LabelLoop(_)
LabelLoop(l) == IF l.queue = <<>> THEN l ELSE LabelLoop(labelIteration(l))

(* seal(), lines 614-626: the labelling in the forEach over preparedChunks *)
RECURSIVE LabelEntries(_, _)
LabelEntries(l, i) ==
    IF i > Len(preparedChunks) THEN l
    ELSE LET module == preparedChunks[i].module
             l1 == LabelLoop([l EXCEPT !.queue = assignIndexStart(module)])
             l2 == LabelLoop([l1 EXCEPT !.queue = assignDepthStart(module)])
         IN  LabelEntries(l2, i + 1)

(* the loop of lines 1030-1095, until the queue is empty *)
RECURSIVE PartTwoLoop(_, _, _)
PartTwoLoop(g, q2, map) ==
    IF q2 = <<>> \/ g.threw THEN g
    ELSE LET r == partTwoIteration(g, q2, map)
         IN  PartTwoLoop(r.g, r.queue2, r.map)

(* processDependenciesBlocksForChunks(inputChunks), lines 889-1102 *)
processDependenciesBlocksForChunks(g, input) ==
    LET g0 == [g EXCEPT !.queue = [i \in DOMAIN input |->
                                     [block |-> g.chunkObj[input[i]].entryModule,
                                      chunk |-> input[i]]],
                        !.blockChunks = <<>>,
                        !.chunkDependencies = <<>>,
                        !.allCreatedChunks = {}]
        g1 == PartOneLoop(g0)
        g2 == PartTwoLoop(g1, [i \in DOMAIN input |->
                                 [chunk |-> input[i], availableModules |-> {}]],
                          <<>>)
    IN  RemoveAll(g2, {c \in g2.allCreatedChunks : g2.chunkObj[c].parents = {}})

(* sortModules, lines 724-730 *)
sortModules(ms, idx) == SortBy(ms, idx)

(* a chunk that `new Chunk` has created: no id, no ids, no hash, no files *)
WithNewChunks(s) ==
    [s EXCEPT !.chunkId = [c \in DOMAIN s.g.chunkObj |-> NullId],
              !.chunkIdsArr = [c \in DOMAIN s.g.chunkObj |-> NoIds],
              !.chunkHash = [c \in DOMAIN s.g.chunkObj |-> NoHash],
              !.chunkFiles = [c \in DOMAIN s.g.chunkObj |-> <<>>]]

(* seal(), lines 607-641, up to the call of the hook optimize-tree *)
sealStart(s) ==
    LET l == LabelEntries([s.l EXCEPT !.nextFreeModuleIndex = 0,
                                      !.nextFreeModuleIndex2 = 0], 1)
        s1 == Logged([s EXCEPT !.l = l, !.g = SealSlots(s.g, 1)], "labelling")
        s2 == Logged([s1 EXCEPT !.g = processDependenciesBlocksForChunks(@, s1.g.chunks)],
                     "chunkGraph")
    IN  WithNewChunks([s2 EXCEPT !.modules = sortModules(@, s2.l.index)])

(* the positions of a module in compilation.modules, of a chunk in chunks *)
PositionIn(q, x) == CHOOSE i \in DOMAIN q : q[i] = x

(* applyModuleIds(), lines 1166-1222, on the modules in their order *)
sealApplyModuleIds(s) ==
    LET ids == applyModuleIdsResult([i \in DOMAIN s.modules |-> s.moduleId[s.modules[i]]],
                                    usedModuleIds)
    IN  Logged([s EXCEPT !.moduleId =
                   [m \in DOMAIN @ |->
                      IF m \in SeqToSet(s.modules) THEN ids[PositionIn(s.modules, m)]
                      ELSE @[m]]],
               "applyModuleIds")

(* sortItemsWithModuleIds, lines 1266-1278 *)
sortItemsWithModuleIds(s) ==
    [s EXCEPT !.modules = SortBy(@, s.moduleId)]

(* applyChunkIds(), lines 1224-1264, on the chunks in their order *)
sealApplyChunkIds(s) ==
    LET cs == s.g.chunks
        ids == applyChunkIdsResult([i \in DOMAIN cs |-> s.chunkId[cs[i]]], usedChunkIds)
        arr == ChunkIdsAfter([i \in DOMAIN cs |-> s.chunkIdsArr[cs[i]]], ids)
    IN  Logged([s EXCEPT !.chunkId = [c \in DOMAIN @ |->
                                        IF c \in SeqToSet(cs) THEN ids[PositionIn(cs, c)]
                                        ELSE @[c]],
                         !.chunkIdsArr = [c \in DOMAIN @ |->
                                            IF c \in SeqToSet(cs) THEN arr[PositionIn(cs, c)]
                                            ELSE @[c]]],
               "applyChunkIds")

(* `${error.message}`: the message of an AsyncDependencyToInitialChunk-    *)
(* Warning names the chunk, the one of a ChunkRenderError is the message   *)
(* of what the template threw                                              *)
Message(e) ==
    IF e.type = "AsyncDependencyToInitialChunkWarning"
    THEN [type |-> e.type, chunkName |-> e.chunkName]
    ELSE [type |-> e.type]

(* byMessage, lines 1293-1299: the order of the message strings *)
ChunkNameSeq == <<"main", "second", "x">>
MessageRank(e) ==
    IF e.type = "AsyncDependencyToInitialChunkWarning"
    THEN PositionIn(ChunkNameSeq, e.chunkName)
    ELSE 0

(* sortItemsWithChunkIds, lines 1280-1303 *)
sortItemsWithChunkIds(s) ==
    [s EXCEPT !.g.chunks = SortBy(@, s.chunkId),
              !.errors = SortBy(@, [e \in SeqToSet(@) |-> MessageRank(e)]),
              !.g.warnings = SortBy(@, [e \in SeqToSet(@) |-> MessageRank(e)])]

(* chunk.hasRuntime(): the chunk is the chunk of an entry point *)
hasRuntime(g, c) == g.chunkObj[c].entryModule # NoModule

(* module.updateHash and chunk.updateHash feed the attributes of the module *)
(* and of the chunk: the id of the module; the id, ids and name of the     *)
(* chunk and its modules                                                   *)
ModuleUpdateHash(s, m) == [set |-> TRUE, id |-> s.moduleId[m]]
ChunkUpdateHash(s, c) ==
    [set |-> TRUE, id |-> s.chunkId[c], ids |-> s.chunkIdsArr[c],
     name |-> s.g.chunkObj[c].name,
     modules |-> {<<m, s.moduleHash[m]>> : m \in s.g.chunkObj[c].modules}]

(* the chunks that are loaded from the chunks of todo, directly or not *)
RECURSIVE ChunkDescendants(_, _, _)
ChunkDescendants(g, todo, seen) ==
    IF todo = {} THEN seen
    ELSE LET next == UNION {g.chunkObj[d].chunks : d \in todo} \ seen
         IN  ChunkDescendants(g, next, seen \cup next)

(* mainTemplate.updateHashForChunk feeds the hashes of the chunks that the *)
(* chunk with runtime loads, as they are when it is called;                *)
(* chunkTemplate.updateHashForChunk feeds nothing of the compilation       *)
UpdateHashForChunk(s, c) ==
    IF hasRuntime(s.g, c)
    THEN [d \in ChunkDescendants(s.g, {c}, {}) |-> s.chunkHash[d]]
    ELSE <<>>

(* createHash, lines 1376-1391: the loop over the sorted copy from         *)
(* position i; fed is what `hash` was fed of the chunks                    *)
RECURSIVE HashChunks(_, _, _, _)
HashChunks(s, cs, i, fed) ==
    IF i > Len(cs) THEN [s |-> s, fed |-> fed]
    ELSE LET c == cs[i]
             digest == ChunkUpdateHash(s, c) @@ [forChunk |-> UpdateHashForChunk(s, c)]
         IN  HashChunks([s EXCEPT !.chunkHash[c] = digest], cs, i + 1, Append(fed, digest))

(* a variant of createHash that hashes the chunks in the order of chunks *)
createHash_InOrderOfChunks(s) ==
    LET s1 == [s EXCEPT !.moduleHash =
                  [m \in DOMAIN @ |->
                     IF m \in SeqToSet(s.modules) THEN ModuleUpdateHash(s, m) ELSE @[m]]]
        r == HashChunks(s1, s.g.chunks, 1, <<>>)
    IN  Logged([r.s EXCEPT !.hash =
                   [set |-> TRUE,
                    warnings |-> [i \in DOMAIN s.g.warnings |-> Message(s.g.warnings[i])],
                    errors |-> [i \in DOMAIN s.errors |-> Message(s.errors[i])],
                    chunks |-> r.fed]],
               "createHash")

(* createHash, lines 1340-1394: the compilation hash is the digest of the  *)
(* messages of the warnings and of the errors and of the chunk hashes, in  *)
(* the order of a copy of chunks that is sorted by hasRuntime()            *)
createHash(s) ==
    LET s1 == [s EXCEPT !.moduleHash =
                  [m \in DOMAIN @ |->
                     IF m \in SeqToSet(s.modules) THEN ModuleUpdateHash(s, m) ELSE @[m]]]
        cs == SortBy(s.g.chunks,
                     [c \in SeqToSet(s.g.chunks) |-> IF hasRuntime(s.g, c) THEN 1 ELSE 0])
        r == HashChunks(s1, cs, 1, <<>>)
    IN  Logged([r.s EXCEPT !.hash =
                   [set |-> TRUE,
                    warnings |-> [i \in DOMAIN s.g.warnings |-> Message(s.g.warnings[i])],
                    errors |-> [i \in DOMAIN s.errors |-> Message(s.errors[i])],
                    chunks |-> r.fed]],
               "createHash")

(* `this.assets[file] = source` *)
SetAsset(a, file, source) ==
    [f \in DOMAIN a \cup {file} |-> IF f = file THEN source ELSE a[f]]

(* getPath, lines 1467-1471: the path is made from the file name and the   *)
(* data, which holds compilation.hash                                      *)
getPath(s, filename) == [filename |-> filename, hash |-> s.hash]

(* createModuleAssets, lines 1408-1419; hooks.moduleAssets are the modules *)
(* whose build left an asset                                               *)
RECURSIVE ModuleAssets(_, _)
ModuleAssets(s, i) ==
    IF i > Len(s.modules) THEN s
    ELSE LET m == s.modules[i]
         IN  ModuleAssets(
                 IF m \in hooks.moduleAssets
                 THEN [s EXCEPT !.assets =
                          SetAsset(@, getPath(s, <<"asset", m>>), <<"module-asset", m>>)]
                 ELSE s,
                 i + 1)

createModuleAssets(s) == Logged(ModuleAssets(s, 1), "createModuleAssets")

(* template.getRenderManifest, line 1431: the template of the chunks with  *)
(* runtime and the template of the other chunks each list the files of a   *)
(* chunk.  An entry names its file, "own" for a name made from the id of   *)
(* the chunk, "bundle" for one name for all chunks, "asset" for the name   *)
(* of the asset of module B, and its source, "own" for a source object of  *)
(* this entry, "shared" for one source object that the entries share.      *)
getRenderManifest(s, c) ==
    LET shape == IF hasRuntime(s.g, c) THEN hooks.mainManifest ELSE hooks.chunkManifest
    IN  [k \in DOMAIN shape |->
            [filenameTemplate |->
                 CASE shape[k].file = "own" -> <<"chunk", s.chunkId[c]>>
                   [] shape[k].file = "bundle" -> <<"bundle">>
                   [] shape[k].file = "asset" -> <<"asset", "B">>,
             source |-> IF shape[k].source = "own" THEN <<"rendered", c, k>>
                        ELSE <<"shared">>,
             throws |-> k = 1 /\ s.g.chunkObj[c].name \in hooks.renderFails]]

NoFile == <<>>

(* a variant of the loop that installs a source over an asset that differs *)
RECURSIVE RenderManifest_Overwrites(_, _, _, _, _)
RenderManifest_Overwrites(s, c, manifest, k, file) ==
    IF k > Len(manifest) THEN s
    ELSE LET fileManifest == manifest[k]
             ChunkRenderError(f, err) ==
                 [type |-> "ChunkRenderError", chunk |-> c, file |-> f, err |-> err]
         IN  IF fileManifest.throws
             THEN [s EXCEPT !.errors =
                      Append(@, ChunkRenderError(IF file # NoFile THEN file
                                                 ELSE fileManifest.filenameTemplate,
                                                 "render"))]
             ELSE LET path == getPath(s, fileManifest.filenameTemplate)
                  IN  RenderManifest_Overwrites(
                          [s EXCEPT !.assets = SetAsset(@, path, fileManifest.source),
                                    !.chunkFiles[c] = Append(@, path)],
                          c, manifest, k + 1, path)

(* lines 1440-1464: the loop over the manifest of chunk c from entry k,    *)
(* inside the try block; file is the local `file`.  The compilations that  *)
(* are sealed have no cache, so every entry is rendered.  What is thrown,  *)
(* by render() or for the conflict, is caught at line 1461 and recorded    *)
(* with `file || filenameTemplate`.                                        *)
RECURSIVE RenderManifest(_, _, _, _, _)
RenderManifest(s, c, manifest, k, file) ==
    IF k > Len(manifest) THEN s
    ELSE LET fileManifest == manifest[k]
             ChunkRenderError(f, err) ==
                 [type |-> "ChunkRenderError", chunk |-> c, file |-> f, err |-> err]
         IN  IF fileManifest.throws
             THEN [s EXCEPT !.errors =
                      Append(@, ChunkRenderError(IF file # NoFile THEN file
                                                 ELSE fileManifest.filenameTemplate,
                                                 "render"))]
             ELSE LET path == getPath(s, fileManifest.filenameTemplate)
                  IN  IF path \in DOMAIN s.assets /\ s.assets[path] # fileManifest.source
                      THEN [s EXCEPT !.errors = Append(@, ChunkRenderError(path, "conflict"))]
                      ELSE RenderManifest(
                               [s EXCEPT !.assets = SetAsset(@, path, fileManifest.source),
                                         !.chunkFiles[c] = Append(@, path)],
                               c, manifest, k + 1, path)

(* createChunkAssets, lines 1421-1465, for the chunks from position i *)
RECURSIVE RenderChunks(_, _)
RenderChunks(s, i) ==
    IF i > Len(s.g.chunks) THEN s
    ELSE LET c == s.g.chunks[i]
             s0 == [s EXCEPT !.chunkFiles[c] = <<>>]
         IN  RenderChunks(RenderManifest(s0, c, getRenderManifest(s0, c), 1, NoFile), i + 1)

createChunkAssets(s) == Logged(RenderChunks(s, 1), "createChunkAssets")

(* the handler of additional-chunk-assets, line 694, when there is one *)
additionalChunkAssetsHook(s) ==
    IF hooks.additionalChunkAsset
    THEN LET file == getPath(s, <<"additional">>)
         IN  [s EXCEPT !.additionalChunkAssets = Append(@, file),
                       !.assets = SetAsset(@, file, <<"additional">>)]
    ELSE s

(* a variant of afterOptimizeTree that hashes before the chunks have ids *)
afterOptimizeTree_HashBeforeChunkIds(s) ==
    LET s1 == sortItemsWithModuleIds(sealApplyModuleIds(s))
        s2 == createHash(s1)
        s3 == sortItemsWithChunkIds(sealApplyChunkIds(s2))
        s4 == createModuleAssets(s3)
        s5 == IF hooks.shouldGenerateChunkAssets THEN createChunkAssets(s4) ELSE s4
    IN  additionalChunkAssetsHook(s5)

(* seal(), lines 647-697: the callback of optimize-tree without an error,  *)
(* up to the call of the hook additional-assets                            *)
afterOptimizeTree(s) ==
    LET s1 == sortItemsWithModuleIds(sealApplyModuleIds(s))
        s2 == sortItemsWithChunkIds(sealApplyChunkIds(s1))
        s3 == createHash(s2)
        s4 == createModuleAssets(s3)
        s5 == IF hooks.shouldGenerateChunkAssets THEN createChunkAssets(s4) ELSE s4
    IN  additionalChunkAssetsHook(s5)

(* Module.unseal(): the module loses what seal() gave it, its id, index,   *)
(* index2 and depth and its chunks, and its blocks lose their chunks       *)
ModuleUnseal(s, m) ==
    [s EXCEPT !.moduleId[m] = NullId,
              !.l.index[m] = NoLabel,
              !.l.index2[m] = NoLabel,
              !.l.depth[m] = NoLabel,
              !.g.moduleChunks[m] = {},
              !.g.blockChunkList =
                  [b \in DOMAIN @ |-> IF BlockModule(b) = m THEN NullList ELSE @[b]]]

RECURSIVE UnsealModules(_, _)
UnsealModules(s, i) ==
    IF i > Len(s.modules) THEN s
    ELSE UnsealModules(ModuleUnseal(s, s.modules[i]), i + 1)

(* a variant of unseal that keeps compilation.assets *)
unseal_KeepsAssets(s) ==
    UnsealModules([s EXCEPT !.g.chunks = <<>>,
                            !.g.chunkObj = <<>>,
                            !.g.namedChunks = <<>>,
                            !.chunkId = <<>>,
                            !.chunkIdsArr = <<>>,
                            !.chunkHash = <<>>,
                            !.chunkFiles = <<>>,
                            !.additionalChunkAssets = <<>>],
                  1)

(* unseal(), lines 597-604; the Chunk objects are gone with the array      *)
unseal(s) ==
    UnsealModules([s EXCEPT !.g.chunks = <<>>,
                            !.g.chunkObj = <<>>,
                            !.g.namedChunks = <<>>,
                            !.chunkId = <<>>,
                            !.chunkIdsArr = <<>>,
                            !.chunkHash = <<>>,
                            !.chunkFiles = <<>>,
                            !.additionalChunkAssets = <<>>,
                            !.assets = <<>>],
                  1)

(* lines 708-717, the callback of optimize-assets: what it calls *)
afterOptimizeAssets_AfterSealEveryPass(err, needAdditionalSeal) ==
    IF err THEN [callback |-> TRUE, unseal |-> FALSE, afterSeal |-> FALSE, pc |-> "done"]
    ELSE IF needAdditionalSeal
    THEN [callback |-> FALSE, unseal |-> TRUE, afterSeal |-> TRUE, pc |-> "seal"]
    ELSE [callback |-> FALSE, unseal |-> FALSE, afterSeal |-> TRUE, pc |-> "after-seal"]

afterOptimizeAssets(err, needAdditionalSeal) ==
    IF err THEN [callback |-> TRUE, unseal |-> FALSE, afterSeal |-> FALSE, pc |-> "done"]
    ELSE IF needAdditionalSeal
    THEN [callback |-> FALSE, unseal |-> TRUE, afterSeal |-> FALSE, pc |-> "seal"]
    ELSE [callback |-> FALSE, unseal |-> FALSE, afterSeal |-> TRUE, pc |-> "after-seal"]

(* what the actions of seal() leave alone *)
sealFrame ==
    <<usedModuleIds, usedChunkIds, idsPhase, constraints, graphVars, inputChunks, queue2,
      minAvailableModulesMap, labelSlot, labelPc, _modules, cache, timestamps, bail,
      entries, prefetched, semaphore, _buildingModules, _rebuildingModules, building,
      builds, reasons, moduleDependencies, tasks, calls, rebuildCalls, ticks, lastAdd, lastBuild,
      joinLog, lastFailure, calledBack, hooks, bailLoops>>

(* `callback(err)`: the callback of seal(callback) is called, by the      *)
(* callback of the hook                                                    *)
SealCallback(hook, err) ==
    /\ sealCalls' = [sealCalls EXCEPT !.callback = Append(@, [hook |-> hook, err |-> err])]
    /\ sealPc' = "done"

(* seal(callback), lines 606-642, called from outside or by line 715 *)
seal ==
    /\ sealPc = "seal"
    /\ SetS(sealStart([S EXCEPT !.log = <<>>]))
    /\ sealCalls' = [sealCalls EXCEPT !.passes = @ + 1]
    /\ sealPc' = "optimize-tree"
    /\ UNCHANGED <<sealFrame, lastSeal>>

(* the callback of optimize-tree, lines 642-699 *)
optimizeTreeCallback ==
    /\ sealPc = "optimize-tree"
    /\ \E err \in BOOLEAN :
          IF err
          THEN SetS(S) /\ SealCallback("optimize-tree", err)
          ELSE /\ SetS(afterOptimizeTree(S))
               /\ sealPc' = "additional-assets"
               /\ UNCHANGED sealCalls
    /\ UNCHANGED <<sealFrame, lastSeal>>

(* the callback of additional-assets, lines 699-703 *)
additionalAssetsCallback ==
    /\ sealPc = "additional-assets"
    /\ \E err \in BOOLEAN :
          IF err
          THEN SealCallback("additional-assets", err)
          ELSE sealPc' = "optimize-chunk-assets" /\ UNCHANGED sealCalls
    /\ SetS(S)
    /\ UNCHANGED <<sealFrame, lastSeal>>

(* the callback of optimize-chunk-assets, lines 703-708 *)
optimizeChunkAssetsCallback ==
    /\ sealPc = "optimize-chunk-assets"
    /\ \E err \in BOOLEAN :
          IF err
          THEN SealCallback("optimize-chunk-assets", err)
          ELSE sealPc' = "optimize-assets" /\ UNCHANGED sealCalls
    /\ SetS(S)
    /\ UNCHANGED <<sealFrame, lastSeal>>

(* the callback of optimize-assets, lines 708-718; needAdditionalSeal is   *)
(* what the bail hook need-additional-seal returns.  After unseal() the    *)
(* call seal(callback) of line 715 is the action seal.                     *)
optimizeAssetsCallback ==
    /\ sealPc = "optimize-assets"
    /\ \E err, needAdditionalSeal \in BOOLEAN :
          /\ needAdditionalSeal => ~err /\ sealCalls.passes < MaxPasses
          /\ LET r == afterOptimizeAssets(err, needAdditionalSeal)
             IN  /\ SetS(IF r.unseal THEN unseal(S) ELSE S)
                 /\ lastSeal' = IF r.unseal
                                THEN [sealed |-> TRUE, hash |-> hash, errors |-> errors,
                                      warnings |-> warnings, chunks |-> chunks,
                                      chunkObj |-> chunkObj, assets |-> assets,
                                      additionalChunkAssets |-> additionalChunkAssets]
                                ELSE lastSeal
                 /\ sealCalls' =
                       [sealCalls EXCEPT
                           !.callback = IF r.callback
                                        THEN Append(@, [hook |-> "optimize-assets",
                                                        err |-> TRUE])
                                        ELSE @,
                           !.unseal = IF r.unseal THEN @ + 1 ELSE @,
                           !.afterSeal = IF r.afterSeal THEN @ + 1 ELSE @,
                           !.requested = IF needAdditionalSeal THEN @ + 1 ELSE @]
                 /\ sealPc' = r.pc
    /\ UNCHANGED sealFrame

(* the callback of after-seal is the callback of seal(callback), line 717 *)
afterSealCallback ==
    /\ sealPc = "after-seal"
    /\ \E err \in BOOLEAN : SealCallback("after-seal", err)
    /\ SetS(S)
    /\ UNCHANGED <<sealFrame, lastSeal>>

(***************************************************************************)
(* The compilations that are sealed: the module graphs given one by one,   *)
(* with or without reserved ids, module assets, a chunk whose template     *)
(* throws, a handler of additional-chunk-assets, and chunk assets.         *)
(***************************************************************************)
(* A has an async block whose chunk name is the one of the entry chunk *)
FoldInGraph ==
    [deps |-> [m \in ModNames |-> IF m = "A" THEN DepsOf({"B"}) ELSE <<>>],
     blocks |-> ("b1" :> [parent |-> "A", chunkName |-> "main", dependencies |-> DepsOf({"E"})]),
     slots |-> <<[name |-> "main", module |-> "A"]>>]

(* two entries, A and B, that both load E through an async block "x" *)
TwoEntryGraph ==
    [deps |-> [m \in ModNames |-> IF m = "B" THEN DepsOf({"A"}) ELSE <<>>],
     blocks |-> ("b1" :> [parent |-> "A", chunkName |-> "x", dependencies |-> DepsOf({"E"})])
                @@ ("b2" :> [parent |-> "B", chunkName |-> "x", dependencies |-> DepsOf({"E"})]),
     slots |-> <<[name |-> "main", module |-> "A"], [name |-> "second", module |-> "B"]>>]

SealGraphs == GivenGraphs \cup {FoldInGraph, TwoEntryGraph}

(* the manifests of the templates: a file per chunk; one file for all      *)
(* chunks, before or after the file of the chunk; one file and one source  *)
(* for all chunks; the file name of the asset of module B                  *)
Own == [file |-> "own", source |-> "own"]
Bundle == [file |-> "bundle", source |-> "own"]
MainManifests ==
    {<<Own>>, <<Bundle, Own>>, <<Own, Bundle>>,
     <<[file |-> "bundle", source |-> "shared"]>>,
     <<[file |-> "asset", source |-> "own"]>>}
ChunkManifests == {<<Own>>, <<Bundle>>}

HookSets ==
    {h \in [shouldGenerateChunkAssets : BOOLEAN, renderFails : {{}, {"main"}},
            additionalChunkAsset : BOOLEAN, moduleAssets : {{}, {"B"}},
            mainManifest : MainManifests, chunkManifest : ChunkManifests] :
        h.shouldGenerateChunkAssets \/
            (h.mainManifest = <<Own>> /\ h.chunkManifest = <<Own>>)}

InitSeal ==
    /\ \E g \in SealGraphs :
          /\ moduleDeps = g.deps
          /\ asyncBlocks = g.blocks
          /\ preparedChunks = g.slots
    /\ modules = BuiltModules(moduleDeps, asyncBlocks, preparedChunks)
    /\ hooks \in HookSets
    /\ usedModuleIds \in {Absent, Reserved({1})}
    /\ usedChunkIds \in {Absent, Reserved({1})}
    /\ moduleId = [m \in ModNames |-> NullId]
    /\ chunkId = <<>>
    /\ chunkIdsArr = <<>>
    /\ idsPhase = "input"
    /\ constraints = NotChecked
    /\ index = [m \in ModNames |-> NoLabel]
    /\ index2 = [m \in ModNames |-> NoLabel]
    /\ depth = [m \in ModNames |-> NoLabel]
    /\ nextFreeModuleIndex = 0
    /\ nextFreeModuleIndex2 = 0
    /\ labelQueue = <<>>
    /\ labelSlot = 0
    /\ labelPc = "idle"
    /\ chunks = <<>>
    /\ chunkObj = <<>>
    /\ namedChunks = <<>>
    /\ moduleChunks = [m \in ModNames |-> {}]
    /\ blockChunkList = [b \in DOMAIN asyncBlocks |-> NullList]
    /\ warnings = <<>>
    /\ sealPc = "seal"
    /\ inputChunks = <<>>
    /\ queue = <<>>
    /\ blockChunks = <<>>
    /\ chunkDependencies = <<>>
    /\ allCreatedChunks = {}
    /\ queue2 = <<>>
    /\ minAvailableModulesMap = <<>>
    /\ moduleHash = [m \in ModNames |-> NoHash]
    /\ chunkHash = <<>>
    /\ hash = NoHash
    /\ assets = <<>>
    /\ chunkFiles = <<>>
    /\ additionalChunkAssets = <<>>
    /\ sealLog = <<>>
    /\ sealCalls = [callback |-> <<>>, afterSeal |-> 0, unseal |-> 0, passes |-> 0,
                    requested |-> 0]
    /\ lastSeal = NoSeal
    /\ bailLoops = <<>>
    /\ _modules = [m \in SeqToSet(modules) |-> m]
    /\ entries = [i \in DOMAIN preparedChunks |-> preparedChunks[i].module]
    /\ cache = NoCache
    /\ timestamps = FALSE
    /\ bail = FALSE
    /\ errors = <<>>
    /\ prefetched = {}
    /\ semaphore = [available |-> 0, waiters |-> <<>>]
    /\ _buildingModules = EmptyMap
    /\ _rebuildingModules = EmptyMap
    /\ building = EmptyMap
    /\ builds = EmptyMap
    /\ reasons = NoReasons
    /\ moduleDependencies = EmptyMap
    /\ tasks = EmptyMap
    /\ calls = EmptyMap
    /\ rebuildCalls = <<>>
    /\ ticks = <<>>
    /\ lastAdd = NoAddCall
    /\ lastBuild = NoBuildCall
    /\ joinLog = {}
    /\ lastFailure = NoFailure
    /\ calledBack = {}

NextSeal ==
    \/ seal
    \/ optimizeTreeCallback
    \/ additionalAssetsCallback
    \/ optimizeChunkAssetsCallback
    \/ optimizeAssetsCallback
    \/ afterSealCallback

SpecSeal == InitSeal /\ [][NextSeal]_vars

(***************************************************************************)
(* Claims on seal() and unseal().                                          *)
(***************************************************************************)
PhaseOrder ==
    <<"labelling", "chunkGraph", "applyModuleIds", "applyChunkIds", "createHash",
      "createModuleAssets", "createChunkAssets">>

IsPrefix(p, q) == Len(p) <= Len(q) /\ \A i \in DOMAIN p : p[i] = q[i]

HasRun(op) == \E i \in DOMAIN sealLog : sealLog[i] = op

(* the positions of seal() after the callback of optimize-tree has run *)
Rendered == {"additional-assets", "optimize-chunk-assets", "optimize-assets", "after-seal"}

(* C15: in every pass of seal() the phases occur in the order labelling of *)
(* the entries, chunk graph, applyModuleIds, applyChunkIds, createHash,    *)
(* createModuleAssets, createChunkAssets: the module and chunk hashes are  *)
(* computed from modules and chunks that have their ids, and every asset   *)
(* is created with compilation.hash set.                                   *)
C15_PhasesInOrder ==
    /\ IsPrefix(sealLog, PhaseOrder)
    /\ sealPc = "optimize-tree" => sealLog = SubSeq(PhaseOrder, 1, 2)
    /\ sealPc \in Rendered =>
          sealLog = IF hooks.shouldGenerateChunkAssets THEN PhaseOrder
                    ELSE SubSeq(PhaseOrder, 1, 6)
    /\ HasRun("createHash") =>
          /\ hash.set
          /\ \A i \in DOMAIN modules :
                moduleHash[modules[i]].set /\ moduleHash[modules[i]].id # NullId
          /\ \A i \in DOMAIN chunks :
                chunkHash[chunks[i]].set /\ chunkHash[chunks[i]].id # NullId
    /\ \A f \in DOMAIN assets : f.hash.set /\ f.hash = hash

(* the second pass has rendered module assets and chunk assets *)
C15_Witness ==
    /\ sealCalls.passes = 2
    /\ sealPc = "additional-assets"
    /\ sealLog = PhaseOrder
    /\ \E f \in DOMAIN assets : f.filename[1] = "chunk"
    /\ \E f \in DOMAIN assets : f.filename[1] = "asset"
    /\ Len(chunks) = 2

(* every truthy answer of need-additional-seal was followed by unseal()    *)
(* and by a further pass of seal()                                         *)
PassesRepeated ==
    /\ sealCalls.unseal = sealCalls.requested
    /\ sealCalls.passes = sealCalls.unseal + (IF sealPc = "seal" THEN 0 ELSE 1)

(* C16, as stated: for one seal(callback) call, every truthy answer of     *)
(* need-additional-seal leads to unseal() and a further pass, and when     *)
(* seal has completed the callback was invoked exactly once and after-seal *)
(* fired exactly once.                                                     *)
C16_AfterSealExactlyOnce ==
    /\ PassesRepeated
    /\ Len(sealCalls.callback) <= 1
    /\ sealPc = "done" => Len(sealCalls.callback) = 1 /\ sealCalls.afterSeal = 1

(* C16, amended: for one seal(callback) call, every truthy answer of       *)
(* need-additional-seal leads to unseal() and a further pass.  The         *)
(* callback is invoked exactly once.  after-seal fires at most once and    *)
(* only after the last pass; it fires exactly once unless an async hook    *)
(* before it (optimize-tree, additional-assets, optimize-chunk-assets,     *)
(* optimize-assets) passes an error, which then goes to the callback       *)
(* without after-seal firing.                                              *)
C16_CallbackOnceAfterSealUnlessError ==
    /\ PassesRepeated
    /\ Len(sealCalls.callback) = (IF sealPc = "done" THEN 1 ELSE 0)
    /\ sealCalls.afterSeal <= 1
    /\ sealCalls.afterSeal = 1 <=>
          \/ sealPc = "after-seal"
          \/ sealPc = "done" /\ sealCalls.callback[1].hook = "after-seal"
    /\ sealPc = "done" =>
          \/ sealCalls.callback[1].hook = "after-seal"
          \/ sealCalls.callback[1].err

(* seal has completed after two additional passes *)
C16_Witness ==
    /\ sealPc = "done"
    /\ sealCalls.passes = 3
    /\ sealCalls.unseal = 2
    /\ sealCalls.afterSeal = 1
    /\ sealCalls.callback = <<[hook |-> "after-seal", err |-> FALSE]>>

(* C17: running seal, then unseal, then seal again yields the compilation  *)
(* hash, the errors and the warnings of the single seal: once the second   *)
(* pass has computed its hash, the three are what the first pass left.     *)
C17_SameHashAfterUnseal ==
    (lastSeal.sealed /\ sealCalls.passes = 2 /\ HasRun("createHash")) =>
        /\ hash = lastSeal.hash
        /\ errors = lastSeal.errors
        /\ warnings = lastSeal.warnings

(* the step is a call of unseal() *)
Unsealing == sealCalls'.unseal = sealCalls.unseal + 1

(* C18: unseal() empties chunks, namedChunks, additionalChunkAssets and    *)
(* assets and unseals every module of modules; it leaves modules,          *)
(* _modules, entries, preparedChunks, errors and warnings as they were;    *)
(* the pass that follows builds the chunks of the pass before again.       *)
C18_UnsealEmptiesChunksAndAssets ==
    [][/\ Unsealing =>
            /\ chunks' = <<>>
            /\ namedChunks' = <<>>
            /\ additionalChunkAssets' = <<>>
            /\ DOMAIN assets' = {}
            /\ \A i \in DOMAIN modules :
                  LET m == modules[i]
                  IN  /\ moduleId'[m] = NullId
                      /\ index'[m] = NoLabel
                      /\ index2'[m] = NoLabel
                      /\ depth'[m] = NoLabel
                      /\ moduleChunks'[m] = {}
            /\ UNCHANGED <<modules, _modules, entries, preparedChunks, errors, warnings>>
       /\ (lastSeal.sealed /\ sealPc = "seal" /\ sealPc' = "optimize-tree") =>
            /\ Len(chunks') = Len(lastSeal.chunks)
            /\ {chunkObj'[c] : c \in DOMAIN chunkObj'}
                  = {lastSeal.chunkObj[c] : c \in DOMAIN lastSeal.chunkObj}]_vars

(* unseal() has run on a compilation with two chunks, assets and an        *)
(* additional chunk asset, and the next pass has built its chunks          *)
C18_Witness ==
    /\ lastSeal.sealed
    /\ Len(lastSeal.chunks) = 2
    /\ DOMAIN lastSeal.assets # {}
    /\ lastSeal.additionalChunkAssets # <<>>
    /\ sealCalls.unseal = 1
    /\ sealPc = "optimize-tree"
    /\ Len(chunks) = 2
    /\ DOMAIN assets = {}

(* the errors that the running pass has appended: the earlier passes left  *)
(* theirs in compilation.errors                                            *)
ErrorsOfPass ==
    SubSeq(errors, (IF lastSeal.sealed THEN Len(lastSeal.errors) ELSE 0) + 1, Len(errors))

(* the first entry of the manifest of chunk c whose render() throws or     *)
(* whose file holds another source in assets, or no source; one more than  *)
(* the length when there is none                                           *)
StoppedAt(c) ==
    LET manifest == getRenderManifest(S, c)
        Stops(k) == LET path == getPath(S, manifest[k].filenameTemplate)
                    IN  \/ manifest[k].throws
                        \/ path \notin DOMAIN assets
                        \/ assets[path] # manifest[k].source
    IN  IF \E k \in DOMAIN manifest : Stops(k)
        THEN CHOOSE k \in DOMAIN manifest : Stops(k) /\ \A j \in 1..(k - 1) : ~Stops(j)
        ELSE Len(manifest) + 1

(* C21: after createChunkAssets, for every chunk: an entry of its manifest *)
(* whose file was in assets with a different source has left that asset in *)
(* place, the file is not in chunk.files for that entry, the entries after *)
(* it have added nothing, and exactly one ChunkRenderError of this chunk   *)
(* was appended; the chunks after it have their files, and                 *)
(* createChunkAssets has returned.                                         *)
C21_ConflictFailsOneChunk ==
    (HasRun("createChunkAssets") /\ sealPc \in Rendered) =>
        \A i \in DOMAIN chunks :
            LET c == chunks[i]
                manifest == getRenderManifest(S, c)
                k == StoppedAt(c)
                errs == {j \in DOMAIN ErrorsOfPass : ErrorsOfPass[j].chunk = c}
            IN  /\ chunkFiles[c] =
                      [j \in 1..(k - 1) |-> getPath(S, manifest[j].filenameTemplate)]
                /\ \A j \in 1..(k - 1) :
                      assets[chunkFiles[c][j]] = manifest[j].source
                /\ IF k <= Len(manifest)
                   THEN /\ Cardinality(errs) = 1
                        /\ \A j \in errs :
                              LET e == ErrorsOfPass[j]
                                  path == getPath(S, manifest[k].filenameTemplate)
                              IN  /\ e.type = "ChunkRenderError"
                                  /\ e.err = IF manifest[k].throws THEN "render" ELSE "conflict"
                                  /\ e.err = "conflict" =>
                                        /\ e.file = path
                                        /\ path \in DOMAIN assets
                                        /\ assets[path] # manifest[k].source
                   ELSE errs = {}

(* the second of three chunks has stopped at its first entry, whose file   *)
(* the first chunk had installed; the third chunk has its file             *)
C21_Witness ==
    /\ HasRun("createChunkAssets")
    /\ sealPc \in Rendered
    /\ Len(chunks) = 3
    /\ hooks.mainManifest = <<Bundle, Own>>
    /\ Len(chunkFiles[chunks[1]]) = 2
    /\ chunkFiles[chunks[2]] = <<>>
    /\ \E j \in DOMAIN ErrorsOfPass :
          /\ ErrorsOfPass[j].chunk = chunks[2]
          /\ ErrorsOfPass[j].err = "conflict"
    /\ Len(chunkFiles[chunks[3]]) = 1
    /\ Len(ErrorsOfPass) = 1

(* C22: after createHash, the hash that a chunk with runtime was computed  *)
(* from holds the final hash of every chunk it loads, so those were        *)
(* finalised before; the compilation hash was fed the hashes of the chunks *)
(* without runtime first, then those of the chunks with runtime; and       *)
(* chunks is still in the order of the chunk ids, in which                 *)
(* sortItemsWithChunkIds left it.                                          *)
C22_ChunksWithoutRuntimeHashedFirst ==
    (HasRun("createHash") /\ sealPc \in Rendered) =>
        LET withRuntime == {c \in SeqToSet(chunks) : hasRuntime(G, c)}
            without == SeqToSet(chunks) \ withRuntime
        IN  /\ \A c \in withRuntime : \A d \in DOMAIN chunkHash[c].forChunk :
                  d \in without /\ chunkHash[d].set /\ chunkHash[c].forChunk[d] = chunkHash[d]
            /\ Len(hash.chunks) = Len(chunks)
            /\ \A i \in DOMAIN hash.chunks :
                  IF i <= Cardinality(without)
                  THEN \E c \in without : hash.chunks[i] = chunkHash[c]
                  ELSE \E c \in withRuntime : hash.chunks[i] = chunkHash[c]
            /\ \A i, j \in DOMAIN chunks : i < j => chunkId[chunks[i]] < chunkId[chunks[j]]

(* the chunk with runtime comes first in chunks and loads the chunk after  *)
(* it, whose hash was fed first                                            *)
C22_Witness ==
    /\ HasRun("createHash")
    /\ sealPc \in Rendered
    /\ Len(chunks) = 2
    /\ hasRuntime(G, chunks[1])
    /\ ~hasRuntime(G, chunks[2])
    /\ chunks[2] \in DOMAIN chunkHash[chunks[1]].forChunk
    /\ hash.chunks = <<chunkHash[chunks[2]], chunkHash[chunks[1]]>>

(***************************************************************************)
(* The optimising loops of seal() (lines 609-612, 632-640 and 649-652):    *)
(* `while(basic || plain || advanced) {}` over three bail hooks, followed   *)
(* by the after-optimize hook of the loop.  An action is one call of a     *)
(* bail hook; what the hooks answer is the plugins' choice: one hook may   *)
(* answer truthy at every call, the others together at most MaxTruthy      *)
(* times.                                                                  *)
(***************************************************************************)
MaxTruthy == 2

Loops == {"dependencies", "modules", "chunks", "chunk-modules"}

BailHooks ==
    [loop \in Loops |->
        CASE loop = "dependencies" ->
                <<"optimize-dependencies-basic", "optimize-dependencies",
                  "optimize-dependencies-advanced">>
          [] loop = "modules" ->
                <<"optimize-modules-basic", "optimize-modules", "optimize-modules-advanced">>
          [] loop = "chunks" ->
                <<"optimize-chunks-basic", "optimize-chunks", "optimize-chunks-advanced">>
          [] loop = "chunk-modules" ->
                <<"optimize-chunk-modules-basic", "optimize-chunk-modules",
                  "optimize-chunk-modules-advanced">>]

AfterHook ==
    [loop \in Loops |->
        CASE loop = "dependencies" -> "after-optimize-dependencies"
          [] loop = "modules" -> "after-optimize-modules"
          [] loop = "chunks" -> "after-optimize-chunks"
          [] loop = "chunk-modules" -> "after-optimize-chunk-modules"]

(* where seal() goes on after a loop: lines 614-631, the next loop, the    *)
(* hook optimize-tree, lines 654-721                                       *)
AfterLoop ==
    [loop \in Loops |->
        CASE loop = "dependencies" -> "chunk-graph"
          [] loop = "modules" -> "chunks"
          [] loop = "chunks" -> "optimize-tree"
          [] loop = "chunk-modules" -> "should-record"]

AllBailHooks == UNION {SeqToSet(BailHooks[loop]) : loop \in Loops}

NoHook == ""

NoPass == [loop |-> "", answers |-> <<>>]

(* a variant of bailResult in which a truthy answer does not end the pass: *)
(* the remaining hooks are called before the loop goes round               *)
bailResult_NoShortCircuit(o, result) ==
    LET loop == o.pc
        hook == BailHooks[loop][Len(o.pass) + 1]
        answers == Append(o.pass, [hook |-> hook, result |-> result])
        o1 == [o EXCEPT !.truthy = IF result /\ hook # o.stubborn THEN @ - 1 ELSE @]
        again == \E i \in DOMAIN answers : answers[i].result
    IN  IF Len(answers) < 3 THEN [o1 EXCEPT !.pass = answers]
        ELSE IF again
        THEN [o1 EXCEPT !.pass = <<>>, !.previous = [loop |-> loop, answers |-> answers]]
        ELSE [o1 EXCEPT !.pass = <<>>,
                        !.previous = [loop |-> loop, answers |-> answers],
                        !.fired = Append(@, AfterHook[loop]),
                        !.pc = AfterLoop[loop]]

(* one operand of the condition of a loop has been evaluated, the hook has *)
(* returned result: a truthy result makes the condition true and the loop  *)
(* goes round; after a falsy result the next operand is evaluated, and     *)
(* after the third one the loop ends and the after-optimize hook is called *)
bailResult(o, result) ==
    LET loop == o.pc
        hook == BailHooks[loop][Len(o.pass) + 1]
        answers == Append(o.pass, [hook |-> hook, result |-> result])
        o1 == [o EXCEPT !.truthy = IF result /\ hook # o.stubborn THEN @ - 1 ELSE @]
    IN  IF result
        THEN [o1 EXCEPT !.pass = <<>>, !.previous = [loop |-> loop, answers |-> answers]]
        ELSE IF Len(answers) < 3 THEN [o1 EXCEPT !.pass = answers]
        ELSE [o1 EXCEPT !.pass = <<>>,
                        !.previous = [loop |-> loop, answers |-> answers],
                        !.fired = Append(@, AfterHook[loop]),
                        !.pc = AfterLoop[loop]]

bailLoopsFrame ==
    <<modules, chunks, warnings, idVars, graphVars, chunkVars, buildVars, labelVars,
      moduleHash, chunkHash, hash, assets, chunkFiles, additionalChunkAssets,
      hooks, sealLog, sealCalls, lastSeal>>

(* applyPluginsBailResult of a bail hook of a loop, lines 609-611, 632-634, *)
(* 637-639 and 649-651                                                     *)
applyPluginsBailResult ==
    /\ bailLoops.pc \in Loops
    /\ \E result \in BOOLEAN :
          LET hook == BailHooks[bailLoops.pc][Len(bailLoops.pass) + 1]
          IN  /\ result => hook = bailLoops.stubborn \/ bailLoops.truthy > 0
              /\ ~result => hook # bailLoops.stubborn
              /\ bailLoops' = bailResult(bailLoops, result)
    /\ UNCHANGED bailLoopsFrame

(* lines 614-631: the chunks of the entries, the labelling, the chunk      *)
(* graph, sortModules and the hook optimize                                *)
sealChunkGraph ==
    /\ bailLoops.pc = "chunk-graph"
    /\ bailLoops' = [bailLoops EXCEPT !.fired = Append(@, "optimize"), !.pc = "modules"]
    /\ UNCHANGED bailLoopsFrame

(* lines 642-647: the callback of the hook optimize-tree *)
optimizeTreeDone ==
    /\ bailLoops.pc = "optimize-tree"
    /\ \E err \in BOOLEAN :
          bailLoops' = IF err
                       THEN [bailLoops EXCEPT !.callback = Append(@, [err |-> TRUE]),
                                              !.pc = "callback"]
                       ELSE [bailLoops EXCEPT !.fired = Append(@, "after-optimize-tree"),
                                              !.pc = "chunk-modules"]
    /\ UNCHANGED bailLoopsFrame

(* lines 654-721: from should-record to the callback of seal *)
sealRest ==
    /\ bailLoops.pc = "should-record"
    /\ \E err \in BOOLEAN :
          bailLoops' = [bailLoops EXCEPT !.callback = Append(@, [err |-> err]),
                                         !.pc = "callback"]
    /\ UNCHANGED bailLoopsFrame

(* seal(callback) has been called and has fired the hook seal (line 607) *)
InitBailLoops ==
    /\ \E t \in 0..MaxTruthy, h \in AllBailHooks \cup {NoHook} :
          bailLoops = [pc |-> "dependencies", pass |-> <<>>, previous |-> NoPass,
                       fired |-> <<"seal">>, truthy |-> t, stubborn |-> h,
                       callback |-> <<>>]
    /\ modules = <<>>
    /\ chunks = <<>>
    /\ InitNoIds
    /\ InitNoChunkGraph
    /\ InitNoBuild
    /\ InitNoLabel
    /\ moduleHash = <<>>
    /\ chunkHash = <<>>
    /\ hash = NoHash
    /\ assets = <<>>
    /\ chunkFiles = <<>>
    /\ additionalChunkAssets = <<>>
    /\ hooks = <<>>
    /\ sealLog = <<>>
    /\ sealCalls = <<>>
    /\ lastSeal = NoSeal

NextBailLoops ==
    \/ applyPluginsBailResult
    \/ sealChunkGraph
    \/ optimizeTreeDone
    \/ sealRest

SpecBailLoops == InitBailLoops /\ [][NextBailLoops]_vars

(***************************************************************************)
(* Claims on the optimising loops.                                         *)
(***************************************************************************)

(* the hooks that answered are the first hooks of the loop, in order *)
InHookOrder(loop, answers) ==
    /\ Len(answers) <= 3
    /\ \A i \in DOMAIN answers : answers[i].hook = BailHooks[loop][i]

Falsy(answers, n) == \A i \in 1..n : ~answers[i].result

(* the loops that have ended *)
EndedLoops ==
    LET Rank(pc) == CASE pc = "dependencies" -> 1 [] pc = "chunk-graph" -> 2
                      [] pc = "modules" -> 2 [] pc = "chunks" -> 3
                      [] pc = "optimize-tree" -> 4 [] pc = "chunk-modules" -> 4
                      [] pc = "should-record" -> 5
                      [] pc = "callback" -> IF bailLoops.callback[1].err
                                               /\ "after-optimize-tree" \notin SeqToSet(bailLoops.fired)
                                            THEN 4 ELSE 5
    IN  {loop \in Loops : Rank(loop) < Rank(bailLoops.pc)}

LoopOf(hook) == CHOOSE loop \in Loops : hook \in SeqToSet(BailHooks[loop])

(* C26: each optimising loop of seal calls its basic, plain and advanced   *)
(* bail hooks in that order; a truthy answer ends the pass, the hooks      *)
(* after it are not called, and the next pass starts at the basic hook;    *)
(* the loop ends only with a pass in which all three answered falsy, and   *)
(* its after-optimize hook is then called, once.  While a hook answers     *)
(* truthy at every call, seal does not leave the loop of that hook: it     *)
(* calls its callback only when optimize-tree fails before the loop is     *)
(* entered.                                                                *)
C26_BailLoopsRestartAtBasic ==
    LET o == bailLoops
        last == o.previous.answers
    IN  o # <<>> =>
          /\ o.pc \in Loops => InHookOrder(o.pc, o.pass) /\ Len(o.pass) < 3
          /\ o.pc \notin Loops => o.pass = <<>>
          /\ Falsy(o.pass, Len(o.pass))
          /\ last # <<>> =>
                /\ InHookOrder(o.previous.loop, last)
                /\ Falsy(last, Len(last) - 1)
                /\ last[Len(last)].result =>
                      /\ o.pc = o.previous.loop
                      /\ o.previous.loop \notin EndedLoops
                /\ ~last[Len(last)].result =>
                      /\ Len(last) = 3
                      /\ o.previous.loop \in EndedLoops
          /\ \A loop \in Loops :
                Cardinality({i \in DOMAIN o.fired : o.fired[i] = AfterHook[loop]})
                    = IF loop \in EndedLoops THEN 1 ELSE 0
          /\ \A loop \in EndedLoops :
                (o.pc = AfterLoop[loop] /\ o.previous.loop # o.pc) =>
                    o.previous.loop = loop /\ Len(last) = 3 /\ Falsy(last, 3)
          /\ o.stubborn # NoHook =>
                /\ LoopOf(o.stubborn) \notin EndedLoops
                /\ o.callback # <<>> =>
                      /\ o.callback = <<[err |-> TRUE]>>
                      /\ LoopOf(o.stubborn) = "chunk-modules"
                      /\ "after-optimize-tree" \notin SeqToSet(o.fired)

(* in the fourth loop the plain hook has answered truthy and the next pass *)
(* has called the basic hook again; the three loops before it have ended   *)
C26_Witness ==
    /\ bailLoops # <<>>
    /\ bailLoops.pc = "chunk-modules"
    /\ bailLoops.previous =
          [loop |-> "chunk-modules",
           answers |-> <<[hook |-> "optimize-chunk-modules-basic", result |-> FALSE],
                       [hook |-> "optimize-chunk-modules", result |-> TRUE]>>]
    /\ bailLoops.pass = <<[hook |-> "optimize-chunk-modules-basic", result |-> FALSE]>>
    /\ bailLoops.stubborn = "optimize-chunk-modules"
    /\ {"after-optimize-dependencies", "after-optimize-modules", "after-optimize-chunks"}
          \subseteq SeqToSet(bailLoops.fired)

(***************************************************************************)
(* The construction of the module graph: addEntry, prefetch,               *)
(* addModuleDependencies, processModuleDependencies, buildModule,          *)
(* rebuildModule and waitForBuildingFinished under the semaphore.          *)
(*                                                                         *)
(* JavaScript runs every callback to completion, so an action is one       *)
(* turn: a call made from outside, a factory or a build calling back, or   *)
(* the head of the process.nextTick queue, followed by everything the      *)
(* code calls synchronously from there.  Factories and module.build call   *)
(* back asynchronously, and only once the nextTick queue has drained.      *)
(* Profiling is off, every dependency type has a factory, and module.errors*)
(* and module.warnings are empty.                                          *)
(***************************************************************************)
Parallelism == 2        \* options.parallelism, the capacity of the semaphore
MaxCalls == 2           \* calls made from outside: addEntry, prefetch,
                        \* rebuildModule and addModuleDependencies
MaxJoins == 1           \* further rebuildModule calls for a module being rebuilt
MaxRetries == 1         \* rebuildModule calls made by the callback of a
                        \* rebuildModule call that received an error
MaxTasks == 4           \* factory requests that are under way at a time

(* the resources that dependencies request; the factory answers a request *)
(* for r with an error, with nothing, or with a new module object whose   *)
(* identifier is r                                                         *)
Identifiers == {"a", "b"}
(* the resources of module.dependencies after a build, grouped by          *)
(* isEqualResource in first-seen order (lines 211-218)                     *)
DependencyLists == {<<>>, <<"b">>, <<"a", "b">>}
(* `cacheGroup || "m"`: null, undefined and "" are the same group *)
NoGroup == ""
CacheGroups == {NoGroup, "lm"}

(* the working state of one turn; lastAdd, lastBuild, joinLog,            *)
(* lastFailure and calledBack describe the turn that led to the state, so  *)
(* a turn starts with none; retry is whether a callback of rebuildModule   *)
(* that receives an error in this turn calls rebuildModule again           *)
B ==
    [modules |-> modules, warnings |-> warnings, preparedChunks |-> preparedChunks,
     _modules |-> _modules, cache |-> cache, errors |-> errors,
     entries |-> entries, prefetched |-> prefetched, semaphore |-> semaphore,
     _buildingModules |-> _buildingModules,
     _rebuildingModules |-> _rebuildingModules, building |-> building,
     builds |-> builds, reasons |-> reasons,
     moduleDependencies |-> moduleDependencies, tasks |-> tasks,
     calls |-> calls, rebuildCalls |-> rebuildCalls, ticks |-> ticks,
     lastAdd |-> NoAddCall, lastBuild |-> NoBuildCall, joinLog |-> {},
     lastFailure |-> NoFailure, calledBack |-> {}, retry |-> FALSE]

SetB(b) ==
    /\ modules' = b.modules
    /\ warnings' = b.warnings
    /\ preparedChunks' = b.preparedChunks
    /\ _modules' = b._modules
    /\ cache' = b.cache
    /\ errors' = b.errors
    /\ entries' = b.entries
    /\ prefetched' = b.prefetched
    /\ semaphore' = b.semaphore
    /\ _buildingModules' = b._buildingModules
    /\ _rebuildingModules' = b._rebuildingModules
    /\ building' = b.building
    /\ builds' = b.builds
    /\ reasons' = b.reasons
    /\ moduleDependencies' = b.moduleDependencies
    /\ tasks' = b.tasks
    /\ calls' = b.calls
    /\ rebuildCalls' = b.rebuildCalls
    /\ ticks' = b.ticks
    /\ lastAdd' = b.lastAdd
    /\ lastBuild' = b.lastBuild
    /\ joinLog' = b.joinLog
    /\ lastFailure' = b.lastFailure
    /\ calledBack' = b.calledBack
    /\ UNCHANGED <<timestamps, bail, chunks, idVars, moduleDeps, asyncBlocks, chunkVars,
                   labelVars, sealVars>>

(* a call that the running turn still has to make, or an entry of the     *)
(* nextTick queue: op(id, err) with a module m and a kind k where needed  *)
Call(op, id, err, m, k) == [op |-> op, id |-> id, err |-> err, m |-> m, k |-> k]
(* what a handler returns: the state it leaves and the calls it makes, in order *)
Returns(b, cs) == [b |-> b, calls |-> cs]

(* an entry of a callback list of _buildingModules *)
Waiter(kind, id) == [kind |-> kind, id |-> id]

(* an error and its origin *)
Error(type, origin) == [type |-> type, origin |-> origin]

(***************************************************************************)
(* The semaphore (lib/util/Semaphore.js is not part of the sources):       *)
(* acquire runs its callback at once when a permit is free and queues it   *)
(* otherwise; release hands the permit to the oldest queued callback, run  *)
(* on the next tick, and frees the permit when none is queued.             *)
(***************************************************************************)
Acquire(b, t) ==
    IF b.semaphore.available > 0
    THEN Returns([b EXCEPT !.semaphore.available = @ - 1,
                           !.tasks[t].acquired = @ + 1],
                 <<Call("acquired", t, FALSE, NoObject, "")>>)
    ELSE Returns([b EXCEPT !.semaphore.waiters = Append(@, t),
                           !.tasks[t].st = "queued"], <<>>)

Release(b, t) ==
    LET b1 == [b EXCEPT !.tasks[t].released = @ + 1]
    IN  IF b1.semaphore.waiters # <<>>
        THEN LET w == Head(b1.semaphore.waiters)
             IN  [b1 EXCEPT !.semaphore.waiters = Tail(@),
                            !.tasks[w].acquired = @ + 1,
                            !.tasks[w].st = "woken",
                            !.ticks = Append(@, Call("acquired", w, FALSE, NoObject, ""))]
        ELSE [b1 EXCEPT !.semaphore.available = @ + 1]

(***************************************************************************)
(* addModule, lines 115-145.  needRebuild is what                          *)
(* cacheModule.needRebuild(fileTimestamps, contextTimestamps) answers.     *)
(***************************************************************************)
cacheName(cacheGroup, identifier) ==
    (IF cacheGroup = NoGroup THEN "m" ELSE cacheGroup) \o identifier

(* addModule reusing whatever the cache holds under the name *)
addModuleResult_AlwaysReuses(b, module, cacheGroup, needRebuild) ==
    LET identifier == module.identifier
        name == cacheName(cacheGroup, identifier)
        cached == b.cache.present /\ name \in DOMAIN b.cache.map
    IN  IF identifier \in DOMAIN b._modules
        THEN [b |-> b, result |-> "false", module |-> NoObject]
        ELSE IF cached
        THEN [b |-> [b EXCEPT !._modules = MapSet(@, identifier, b.cache.map[name]),
                              !.modules = Append(@, b.cache.map[name])],
              result |-> "module", module |-> b.cache.map[name]]
        ELSE [b |-> [b EXCEPT !._modules = MapSet(@, identifier, module),
                              !.cache = IF b.cache.present
                                        THEN Cache(MapSet(b.cache.map, name, module))
                                        ELSE b.cache,
                              !.modules = Append(@, module)],
              result |-> "true", module |-> NoObject]

(* addModule without the check of lines 117-119 *)
addModuleResult_NoDuplicateCheck(b, module, cacheGroup, needRebuild) ==
    LET identifier == module.identifier
        name == cacheName(cacheGroup, identifier)
    IN  [b |-> [b EXCEPT !._modules = MapSet(@, identifier, module),
                         !.cache = IF b.cache.present
                                   THEN Cache(MapSet(b.cache.map, name, module))
                                   ELSE b.cache,
                         !.modules = Append(@, module)],
         result |-> "true", module |-> NoObject]

(* the result: "false", "true", or "module" with the cached instance *)
addModuleResult(b, module, cacheGroup, needRebuild) ==
    LET identifier == module.identifier
        name == cacheName(cacheGroup, identifier)
        cached == b.cache.present /\ name \in DOMAIN b.cache.map
        rebuild == IF cached /\ timestamps THEN needRebuild ELSE TRUE
    IN  IF identifier \in DOMAIN b._modules
        THEN [b |-> b, result |-> "false", module |-> NoObject]
        ELSE IF cached /\ ~rebuild
        THEN LET cacheModule == b.cache.map[name]
             IN  [b |-> [b EXCEPT !._modules = MapSet(@, identifier, cacheModule),
                                  !.modules = Append(@, cacheModule)],
                  result |-> "module", module |-> cacheModule]
        ELSE [b |-> [b EXCEPT !._modules = MapSet(@, identifier, module),
                              !.cache = IF b.cache.present
                                        THEN Cache(MapSet(b.cache.map, name, module))
                                        ELSE b.cache,
                              !.modules = Append(@, module)],
              result |-> "true", module |-> NoObject]

(* a variant of addModule that stores a module whose identifier is known  *)
addModule_NoDuplicateCheck(b, module, cacheGroup, needRebuild) ==
    LET r == addModuleResult_NoDuplicateCheck(b, module, cacheGroup, needRebuild)
    IN  [r EXCEPT !.b.lastAdd =
            [called |-> TRUE, module |-> module, cacheGroup |-> cacheGroup,
             needRebuild |-> needRebuild, result |-> r.result,
             instance |-> r.module]]

addModule(b, module, cacheGroup, needRebuild) ==
    LET r == addModuleResult(b, module, cacheGroup, needRebuild)
    IN  [r EXCEPT !.b.lastAdd =
            [called |-> TRUE, module |-> module, cacheGroup |-> cacheGroup,
             needRebuild |-> needRebuild, result |-> r.result,
             instance |-> r.module]]

(* getModule, lines 147-150 *)
getModule(b, module) == b._modules[module.identifier]

(***************************************************************************)
(* Tasks, invocations of addModuleDependencies and rebuildModule calls.    *)
(***************************************************************************)
(* A task is one factory request: the whole of _addModuleChain (kind      *)
(* "entry" or "prefetch") or one item of asyncLib.forEach in              *)
(* addModuleDependencies (kind "dep").  st is the callback it waits for;  *)
(* acquired and released count its semaphore operations.                  *)
NewTask(kind, call, resource) ==
    [kind |-> kind, call |-> call, resource |-> resource, st |-> "acquire",
     module |-> NoObject, acquired |-> 0, released |-> 0, result |-> "pending"]

(* One invocation of addModuleDependencies: its arguments, `_this` (this  *)
(* is FALSE once `_this = null`), and the counter of asyncLib.forEach.    *)
(* The dependencies are the objects Dependency(gen, resource) of module.   *)
NewInvocation(module, n, gen, bailArg, cacheGroup, recursive, contKind, contId) ==
    [module |-> module, gen |-> gen, bail |-> bailArg, cacheGroup |-> cacheGroup,
     recursive |-> recursive, this |-> TRUE, remaining |-> n,
     finished |-> FALSE, callback |-> Waiter(contKind, contId),
     result |-> "pending"]

Count(f, k) == IF k \in DOMAIN f THEN f[k] ELSE 0

(* the number of a new task or invocation: the first one not in use *)
NewId(f) == CHOOSE i \in 1..(Cardinality(DOMAIN f) + 1) :
               i \notin DOMAIN f /\ \A j \in 1..(i - 1) : j \in DOMAIN f

Range(s) == {s[i] : i \in DOMAIN s}

(* the module object a factory creates: an object that is none of the     *)
(* objects the compilation holds                                          *)
Held(b) == Range(b.modules) \cup Range(b.cache.map) \cup DOMAIN b.building
           \cup {b.tasks[t].module : t \in DOMAIN b.tasks}
NewModule(b, identifier) ==
    ModuleObject(identifier,
                 CHOOSE n \in 1..(Cardinality(Held(b)) + 1) :
                    /\ ModuleObject(identifier, n) \notin Held(b)
                    /\ \A j \in 1..(n - 1) : ModuleObject(identifier, j) \in Held(b))

(***************************************************************************)
(* Dependencies and reasons.  module.build replaces module.dependencies by *)
(* new objects: a dependency of a module is told from the others by the    *)
(* build that created it (gen, 0 for what a cached instance brings along)  *)
(* and by its resource.  Module.reasons (lib/Module.js is not part of the  *)
(* sources) is a set of pairs of an origin module and a dependency.  A     *)
(* specification that leaves module.reasons out also leaves out which      *)
(* build created a dependency.                                             *)
(***************************************************************************)
Dependency(gen, resource) == [gen |-> gen, resource |-> resource]

Reason(module, dependency) == [module |-> module, dependency |-> dependency]

(* the build that created the objects in module.dependencies *)
DependencyGen(b, module) == Count(b.reasons.gen, module)

ReasonsOf(b, module) ==
    IF module \in DOMAIN b.reasons.map THEN b.reasons.map[module] ELSE {}

(* Module.addReason(module, dependency) *)
addReason(b, target, module, dependency) ==
    IF ~b.reasons.kept THEN b
    ELSE [b EXCEPT !.reasons.map = MapSet(@, target, ReasonsOf(b, target)
                                                       \cup {Reason(module, dependency)})]

(* Module.removeReason(module, dependency) *)
removeReason(b, target, module, dependency) ==
    IF ~b.reasons.kept THEN b
    ELSE [b EXCEPT !.reasons.map = MapSet(@, target, ReasonsOf(b, target)
                                                       \ {Reason(module, dependency)})]

(* d.module: the module that iterationDependencies gave the dependency to, *)
(* which is where it added the reason                                      *)
DependencyModules(b, module, dependency) ==
    {target \in DOMAIN b.reasons.map : Reason(module, dependency) \in b.reasons.map[target]}

(* iterationDependencies, lines 296-302, for the dependencies of task t *)
iterationDependencies(b, t, dependentModule) ==
    addReason(b, dependentModule, b.calls[b.tasks[t].call].module,
              Dependency(b.calls[b.tasks[t].call].gen, b.tasks[t].resource))

(* removeReasonsOfDependencyBlock, lines 1104-1125, for the dependencies   *)
(* old.resources that build old.gen created; a module has no chunks while *)
(* the module graph is under construction, so forEachChunk (line 1110)     *)
(* calls nothing                                                           *)
RECURSIVE removeReasonsOfDependencyBlock(_, _, _, _)
removeReasonsOfDependencyBlock(b, module, old, i) ==
    IF i > Len(old.resources) THEN b
    ELSE LET d == Dependency(old.gen, old.resources[i])
             targets == DependencyModules(b, module, d)
             b1 == IF targets = {} THEN b
                   ELSE removeReason(b, CHOOSE target \in targets : TRUE, module, d)
         IN  removeReasonsOfDependencyBlock(b1, module, old, i + 1)

NoDependencies == [gen |-> 0, resources |-> <<>>]

(* lines 574-581 of rebuildModule, for rebuildModule call k *)
removeOldReasons(b, k) ==
    LET b1 == removeReasonsOfDependencyBlock(b, b.rebuildCalls[k].module,
                                             b.rebuildCalls[k].oldDependencies, 1)
    IN  [b1 EXCEPT !.rebuildCalls[k].patched =
            {target \in DOMAIN b.reasons.map :
                b1.reasons.map[target] # b.reasons.map[target]}]

(***************************************************************************)
(* buildModule, lines 165-206: join the callback list of a build in        *)
(* flight, or open a list and call module.build.                           *)
(***************************************************************************)
(* buildModule without the check of lines 167-171 *)
buildModuleStart_NoJoin(b, module, thisCallback) ==
    [b EXCEPT !._buildingModules = MapSet(@, module, <<thisCallback>>),
              !.building = MapSet(@, module, Count(b.building, module) + 1),
              !.builds = MapSet(@, module, Count(b.builds, module) + 1)]

buildModuleStart(b, module, thisCallback) ==
    IF module \in DOMAIN b._buildingModules
    THEN [b EXCEPT !._buildingModules[module] = Append(@, thisCallback)]
    ELSE [b EXCEPT !._buildingModules = MapSet(@, module, <<thisCallback>>),
                   !.building = MapSet(@, module, Count(b.building, module) + 1),
                   !.builds = MapSet(@, module, Count(b.builds, module) + 1)]

CallbackList(b, module) ==
    IF module \in DOMAIN b._buildingModules THEN b._buildingModules[module] ELSE <<>>

buildModule(b, module, thisCallback) ==
    LET b1 == buildModuleStart(b, module, thisCallback)
    IN  [b1 EXCEPT !.lastBuild =
            [called |-> TRUE, via |-> "buildModule", module |-> module,
             callback |-> thisCallback]]

(* a variant of buildDone that leaves the callback list of the module in   *)
(* _buildingModules                                                        *)
buildDone_KeepsList(b, module, err, dependencies) ==
    LET callbackList == CallbackList(b, module)
        b1 == [b EXCEPT !.building = IF @[module] = 1 THEN MapDelete(@, module)
                                     ELSE [@ EXCEPT ![module] = @ - 1],
                        !.moduleDependencies =
                            IF err THEN @ ELSE MapSet(@, module, dependencies),
                        !.reasons.gen =
                            IF err \/ ~b.reasons.kept THEN @
                            ELSE MapSet(@, module, Count(b.builds, module))]
    IN  Returns(b1, [i \in 1..Len(callbackList) |->
                        Call("callback", callbackList[i].id, err, module,
                             callbackList[i].kind)])

(* the callback of module.build, lines 179-205, and `callback`, lines     *)
(* 174-177; dependencies is what the build left in module.dependencies    *)
buildDone(b, module, err, dependencies) ==
    LET callbackList == CallbackList(b, module)
        b1 == [b EXCEPT !.building = IF @[module] = 1 THEN MapDelete(@, module)
                                     ELSE [@ EXCEPT ![module] = @ - 1],
                        !.moduleDependencies =
                            IF err THEN @ ELSE MapSet(@, module, dependencies),
                        !.reasons.gen =
                            IF err \/ ~b.reasons.kept THEN @
                            ELSE MapSet(@, module, Count(b.builds, module)),
                        !._buildingModules = MapDelete(@, module)]
    IN  Returns(b1, [i \in 1..Len(callbackList) |->
                        Call("callback", callbackList[i].id, err, module,
                             callbackList[i].kind)])

(* waitForBuildingFinished, lines 156-163; the callback is the iterator   *)
(* callback of a dep task or the function of lines 466-469 of a chain task*)
waitForBuildingFinished(b, module, t) ==
    LET chain == b.tasks[t].kind # "dep"
        b1 == [b EXCEPT !.tasks[t].st = "wait"]
    IN  IF module \in DOMAIN b._buildingModules
        THEN [b1 EXCEPT !._buildingModules[module] =
                Append(@, Waiter(IF chain THEN "waitChain" ELSE "waitDep", t))]
        ELSE [b1 EXCEPT !.ticks =
                Append(@, IF chain THEN Call("waited", t, FALSE, NoObject, "")
                                   ELSE Call("iteratorCallback", t, FALSE, NoObject, ""))]

(***************************************************************************)
(* addModuleDependencies, lines 236-405, up to the factory calls, and      *)
(* processModuleDependencies, lines 208-234.                               *)
(***************************************************************************)
(* the callback handed to semaphore.acquire: lines 267-271 and 427-428 *)
acquired(b, t) ==
    IF b.tasks[t].kind = "dep" /\ ~b.calls[b.tasks[t].call].this
    THEN Release([b EXCEPT !.tasks[t].st = "done"], t)
    ELSE [b EXCEPT !.tasks[t].st = "factory"]

(* asyncLib.forEach calls the iterator for every item in turn *)
RECURSIVE ForEachItem(_, _, _, _)
ForEachItem(b, c, dependencies, i) ==
    IF i > Len(dependencies) THEN b
    ELSE LET t == NewId(b.tasks)
             b1 == [b EXCEPT !.tasks = MapSet(@, t, NewTask("dep", c, dependencies[i]))]
             a == Acquire(b1, t)
         IN  ForEachItem(IF a.calls = <<>> THEN a.b ELSE acquired(a.b, t),
                         c, dependencies, i + 1)

addModuleDependencies(b, module, dependencies, gen, bailArg, cacheGroup, recursive, contKind, contId) ==
    LET c == NewId(b.calls)
        b1 == [b EXCEPT !.calls = MapSet(@, c,
                  NewInvocation(module, Len(dependencies), gen, bailArg, cacheGroup,
                                recursive, contKind, contId))]
    IN  IF dependencies = <<>>
        THEN Returns(b1, <<Call("finalCallback", c, FALSE, NoObject, "")>>)
        ELSE Returns(ForEachItem(b1, c, dependencies, 1), <<>>)

processModuleDependencies(b, module, contKind, contId) ==
    addModuleDependencies(b, module, b.moduleDependencies[module],
                          DependencyGen(b, module), bail, NoGroup,
                          TRUE, contKind, contId)

(* the callback asyncLib.forEach hands to the iterator: the first error   *)
(* or the last completion calls the final callback, once                  *)
iteratorCallback(b, t, err) ==
    LET c == b.tasks[t].call
        b1 == [b EXCEPT !.tasks[t].st = "done"]
    IN  IF b.calls[c].finished THEN Returns(b1, <<>>)
        ELSE IF err THEN Returns(b1, <<Call("finalCallback", c, TRUE, NoObject, "")>>)
        ELSE IF b.calls[c].remaining = 1
        THEN Returns([b1 EXCEPT !.calls[c].remaining = 0],
                     <<Call("finalCallback", c, FALSE, NoObject, "")>>)
        ELSE Returns([b1 EXCEPT !.calls[c].remaining = @ - 1], <<>>)

(* lines 392-404 *)
finalCallback(b, c, err) ==
    LET b1 == [b EXCEPT !.calls[c].this = FALSE, !.calls[c].finished = TRUE]
    IN  IF err THEN Returns(b1, <<Call("invocationCallback", c, TRUE, NoObject, "")>>)
        ELSE Returns([b1 EXCEPT !.ticks =
                        Append(@, Call("invocationCallback", c, FALSE, NoObject, ""))],
                     <<>>)

(* errorOrWarningAndCallback whose warningAndCallback bails as            *)
(* errorAndCallback does                                                   *)
errorOrWarningAndCallback_WarningBails(b, t, type, optional) ==
    LET c == b.tasks[t].call
        err == Error(type, b.calls[c].module)
    IN  IF optional
        THEN Returns([b EXCEPT !.warnings = Append(@, err)],
                     <<Call("iteratorCallback", t, b.calls[c].bail, NoObject, "")>>)
        ELSE Returns([b EXCEPT !.errors = Append(@, err)],
                     <<Call("iteratorCallback", t, b.calls[c].bail, NoObject, "")>>)

(* errorAndCallback, warningAndCallback and errorOrWarningAndCallback of  *)
(* addModuleDependencies, lines 251-264 and 288-294; optional is          *)
(* isOptional(), whether every dependency of the item is optional         *)
errorOrWarningAndCallback(b, t, type, optional) ==
    LET c == b.tasks[t].call
        err == Error(type, b.calls[c].module)
    IN  IF optional
        THEN Returns([b EXCEPT !.warnings = Append(@, err)],
                     <<Call("iteratorCallback", t, FALSE, NoObject, "")>>)
        ELSE Returns([b EXCEPT !.errors = Append(@, err)],
                     <<Call("iteratorCallback", t, b.calls[c].bail, NoObject, "")>>)

(* errorAndCallback of _addModuleChain, lines 410-416 *)
chainErrorAndCallback(b, t, type) ==
    IF bail
    THEN Returns(b, <<Call("chainCallback", t, TRUE, NoObject, "")>>)
    ELSE Returns([b EXCEPT !.errors = Append(@, Error(type, NoObject))],
                 <<Call("chainCallback", t, FALSE, NoObject, "")>>)

(***************************************************************************)
(* The callbacks that a finished build calls.                              *)
(***************************************************************************)
Joined(b, module, kind, id, received, status) ==
    [b EXCEPT !.joinLog = @ \cup {[callback |-> kind, received |-> received,
                                   status |-> status, module |-> module, id |-> id,
                                   n |-> Cardinality(@) + 1,
                                   list |-> CallbackList(b, module)]}]

(* the callback of buildModule in addModuleDependencies, lines 369-388 *)
depBuilt(b, t, err, optional) ==
    LET c == b.tasks[t].call
    IN  IF ~b.calls[c].this
        THEN Returns(Release([b EXCEPT !.tasks[t].st = "done"], t), <<>>)
        ELSE IF err
        THEN errorOrWarningAndCallback(Release(b, t), t, "ModuleBuildError", optional)
        ELSE IF b.calls[c].recursive
        THEN Returns(Release([b EXCEPT !.tasks[t].st = "deps"], t),
                     <<Call("processModuleDependencies", t, FALSE,
                            b.tasks[t].module, "dep")>>)
        ELSE Returns(Release(b, t), <<Call("iteratorCallback", t, FALSE, NoObject, "")>>)

(* a variant of moduleReady that calls the callback of _addModuleChain     *)
(* before the dependencies of the module are processed                     *)
moduleReady_CallsBackFirst(b, t) ==
    Returns(Release([b EXCEPT !.tasks[t].st = "deps"], t),
            <<Call("chainCallback", t, FALSE, b.tasks[t].module, ""),
              Call("processModuleDependencies", t, FALSE, b.tasks[t].module, "chain")>>)

(* moduleReady, lines 473-482 *)
moduleReady(b, t) ==
    Returns(Release([b EXCEPT !.tasks[t].st = "deps"], t),
            <<Call("processModuleDependencies", t, FALSE, b.tasks[t].module, "chain")>>)

(* the callback of buildModule in _addModuleChain, lines 505-517 *)
chainBuilt(b, t, err) ==
    IF err THEN chainErrorAndCallback(Release(b, t), t, "ModuleBuildError")
    ELSE moduleReady(b, t)

(* the callback of buildModule in rebuildModule, lines 571-584 *)
rebuildBuilt(b, k, err) ==
    IF err THEN Returns(b, <<Call("rebuildCallback", k, TRUE, NoObject, "")>>)
    ELSE Returns(b, <<Call("processModuleDependencies", k, FALSE,
                           b.rebuildCalls[k].module, "rebuild")>>)

(* an entry of a callback list is called with the error of the build;    *)
(* the entries of waitForBuildingFinished are `() => callback()`, line 159*)
callback(b, module, kind, id, err, optional) ==
    LET b1 == Joined(b, module, kind, id,
                     IF kind \in {"waitDep", "waitChain"} THEN FALSE ELSE err, err)
    IN  CASE kind = "depBuild" -> depBuilt(b1, id, err, optional)
          [] kind = "chainBuild" -> chainBuilt(b1, id, err)
          [] kind = "rebuildBuild" -> rebuildBuilt(b1, id, err)
          [] kind = "waitDep" ->
                Returns(b1, <<Call("iteratorCallback", id, FALSE, NoObject, "")>>)
          [] kind = "waitChain" ->
                Returns(b1, <<Call("waited", id, FALSE, NoObject, "")>>)

(* the callback of waitForBuildingFinished in _addModuleChain, lines 466-469 *)
waited(b, t, err) ==
    Returns(b, <<Call("chainCallback", t, err,
                      IF err THEN NoObject ELSE b.tasks[t].module, "")>>)

(***************************************************************************)
(* The callbacks of addModuleDependencies and of _addModuleChain.          *)
(***************************************************************************)
SlotOf(b, t) == CHOOSE i \in DOMAIN b.preparedChunks : b.preparedChunks[i].slot = t

RemoveAt(s, i) == [j \in 1..(Len(s) - 1) |-> IF j < i THEN s[j] ELSE s[j + 1]]

(* the callback of _addModuleChain: lines 532-544 for addEntry, the       *)
(* caller's callback for prefetch                                         *)
chainCallback(b, t, err, module) ==
    LET result == IF err THEN "err" ELSE IF module # NoObject THEN "ok" ELSE "nomodule"
        b1 == [b EXCEPT !.tasks[t].st = "done", !.tasks[t].result = result]
    IN  IF b.tasks[t].kind = "prefetch" \/ err THEN Returns(b1, <<>>)
        ELSE IF module # NoObject
        THEN Returns([b1 EXCEPT !.preparedChunks[SlotOf(b, t)].module = module], <<>>)
        ELSE Returns([b1 EXCEPT !.preparedChunks = RemoveAt(@, SlotOf(b, t))], <<>>)

(* rebuildModule, lines 555-585, up to the call of module.build; nested is *)
(* whether the call is made from the callback of a rebuildModule call, and *)
(* patched are the modules whose removeReason returned true (line 1109)    *)
rebuildModuleStart(b, module, nested) ==
    LET k == Len(b.rebuildCalls) + 1
        b1 == [b EXCEPT !.rebuildCalls =
                  Append(@, [module |-> module, result |-> "pending",
                             joined |-> module \in DOMAIN b._rebuildingModules,
                             nested |-> nested, called |-> 0, patched |-> {},
                             oldDependencies |->
                                IF \/ module \in DOMAIN b._rebuildingModules
                                   \/ module \notin DOMAIN b.moduleDependencies
                                   \/ ~b.reasons.kept
                                THEN NoDependencies
                                ELSE [gen |-> DependencyGen(b, module),
                                      resources |-> b.moduleDependencies[module]]])]
    IN  IF module \in DOMAIN b._rebuildingModules
        THEN [b1 EXCEPT !._rebuildingModules[module] = Append(@, k)]
        ELSE buildModuleStart([b1 EXCEPT !._rebuildingModules = MapSet(@, module, <<k>>)],
                              module, Waiter("rebuildBuild", k))

(* `callback` of rebuildModule, lines 563-566: the list is deleted and     *)
(* every entry is called with err; with retry the first one calls          *)
(* rebuildModule again                                                     *)
rebuildCallback(b, k, err) ==
    LET module == b.rebuildCalls[k].module
        callbackList == b._rebuildingModules[module]
        again == IF err /\ b.retry THEN <<callbackList[1]>> ELSE <<>>
    IN  Returns([b EXCEPT !._rebuildingModules = MapDelete(@, module),
                          !.retry = FALSE,
                          !.rebuildCalls =
                              [j \in DOMAIN @ |->
                                 IF \E i \in DOMAIN callbackList : callbackList[i] = j
                                 THEN [@[j] EXCEPT !.result = IF err THEN "err" ELSE "ok",
                                                   !.called = @ + 1]
                                 ELSE @[j]]],
                [i \in DOMAIN again |-> Call("rebuildModule", again[i], FALSE, module, "")])

(* a variant of invocationCallback whose rebuildModule branch removes the *)
(* reasons of the old dependencies whether or not the processing failed   *)
invocationCallback_RemovesOnError(b, c, err) ==
    LET k == b.calls[c].callback
        b1 == [b EXCEPT !.calledBack = @ \cup {[call |-> c, err |-> err]}]
    IN  CASE k.kind = "dep" ->
                Returns(b1, <<Call("iteratorCallback", k.id, err, NoObject, "")>>)
          [] k.kind = "chain" ->
                Returns(b1, <<Call("chainCallback", k.id, err,
                                   IF err THEN NoObject ELSE b.tasks[k.id].module, "")>>)
          [] k.kind = "rebuild" ->
                Returns(removeOldReasons(b1, k.id),
                        <<Call("rebuildCallback", k.id, err, NoObject, "")>>)
          [] k.kind = "external" ->
                Returns([b1 EXCEPT !.calls[c].result = IF err THEN "err" ELSE "ok"], <<>>)

(* the callback an invocation of addModuleDependencies was given: the     *)
(* iterator callback of the task whose module it processed (lines 359,    *)
(* 384), lines 475-481 of _addModuleChain, lines 574-582 of rebuildModule,*)
(* or the callback of a caller outside                                    *)
invocationCallback(b, c, err) ==
    LET k == b.calls[c].callback
        b1 == [b EXCEPT !.calledBack = @ \cup {[call |-> c, err |-> err]}]
    IN  CASE k.kind = "dep" ->
                Returns(b1, <<Call("iteratorCallback", k.id, err, NoObject, "")>>)
          [] k.kind = "chain" ->
                Returns(b1, <<Call("chainCallback", k.id, err,
                                   IF err THEN NoObject ELSE b.tasks[k.id].module, "")>>)
          [] k.kind = "rebuild" ->
                Returns(IF err THEN b1 ELSE removeOldReasons(b1, k.id),
                        <<Call("rebuildCallback", k.id, err, NoObject, "")>>)
          [] k.kind = "external" ->
                Returns([b1 EXCEPT !.calls[c].result = IF err THEN "err" ELSE "ok"], <<>>)

(***************************************************************************)
(* One turn: the calls are made depth first, in order.                     *)
(***************************************************************************)
Handle(b, call, optional) ==
    CASE call.op = "acquired" -> Returns(acquired(b, call.id), <<>>)
      [] call.op = "callback" -> callback(b, call.m, call.k, call.id, call.err, optional)
      [] call.op = "waited" -> waited(b, call.id, call.err)
      [] call.op = "iteratorCallback" -> iteratorCallback(b, call.id, call.err)
      [] call.op = "finalCallback" -> finalCallback(b, call.id, call.err)
      [] call.op = "invocationCallback" -> invocationCallback(b, call.id, call.err)
      [] call.op = "chainCallback" -> chainCallback(b, call.id, call.err, call.m)
      [] call.op = "rebuildCallback" -> rebuildCallback(b, call.id, call.err)
      [] call.op = "rebuildModule" ->
            Returns(rebuildModuleStart(b, call.m, TRUE), <<>>)
      [] call.op = "processModuleDependencies" ->
            processModuleDependencies(b, call.m, call.k, call.id)

RECURSIVE Run(_, _, _)
Run(b, stack, optional) ==
    IF stack = <<>> THEN b
    ELSE LET r == Handle(b, Head(stack), optional)
         IN  Run(r.b, r.calls \o Tail(stack), optional)

(* What no callback can reach any more is dropped: the dep tasks whose    *)
(* iterator callback has run (or whose invocation had ended) and that      *)
(* released their permit once, and the ended invocations that no task and  *)
(* no queued callback refers to.                                           *)
Collect(b) ==
    LET liveTasks == {t \in DOMAIN b.tasks :
                         ~(/\ b.tasks[t].kind = "dep"
                           /\ b.tasks[t].st = "done"
                           /\ b.tasks[t].acquired = 1
                           /\ b.tasks[t].released = 1)}
        liveCalls == {c \in DOMAIN b.calls :
                         \/ ~b.calls[c].finished
                         \/ b.calls[c].callback.kind = "external"
                         \/ \E t \in liveTasks : b.tasks[t].call = c
                         \/ \E i \in DOMAIN b.ticks :
                               b.ticks[i].op = "invocationCallback" /\ b.ticks[i].id = c}
    IN  [b EXCEPT !.tasks = [t \in liveTasks |-> b.tasks[t]],
                  !.calls = [c \in liveCalls |-> b.calls[c]]]

Turn(r, optional) == SetB(Collect(Run(r.b, r.calls, optional)))

(***************************************************************************)
(* The factory calls back.                                                 *)
(***************************************************************************)
(* a variant of depFactoryCallback that builds the instance it took from   *)
(* the cache                                                               *)
depFactoryCallback_BuildsCached(b, t, outcome, optional, needRebuild, cachedDependencies) ==
    LET inv == b.calls[b.tasks[t].call]
        dependentModule == NewModule(b, b.tasks[t].resource)
        r == addModule(b, dependentModule, inv.cacheGroup, needRebuild)
        existing == getModule(r.b, dependentModule)
    IN  IF ~inv.this
        THEN Returns(Release([b EXCEPT !.tasks[t].st = "done"], t), <<>>)
        ELSE CASE outcome = "err" ->
                    errorOrWarningAndCallback(
                        Release([b EXCEPT !.lastFailure =
                                    [called |-> TRUE, call |-> b.tasks[t].call,
                                     optional |-> optional]], t),
                        t, "ModuleNotFoundError", optional)
               [] outcome = "null" ->
                    Returns([Release([b EXCEPT !.tasks[t].st = "tick"], t)
                               EXCEPT !.ticks =
                                 Append(@, Call("iteratorCallback", t, FALSE, NoObject, ""))],
                            <<>>)
               [] outcome = "module" /\ r.result = "false" ->
                    Returns(waitForBuildingFinished(
                                Release(iterationDependencies(
                                            [r.b EXCEPT !.tasks[t].module = existing],
                                            t, existing), t),
                                existing, t),
                            <<>>)
               [] outcome = "module" /\ r.result = "module" ->
                    Returns(buildModule(iterationDependencies(
                                            [r.b EXCEPT !.tasks[t].module = r.module,
                                                        !.tasks[t].st = "build"],
                                            t, r.module),
                                        r.module, Waiter("depBuild", t)),
                            <<>>)
               [] outcome = "module" /\ r.result = "true" ->
                    Returns(buildModule(iterationDependencies(
                                            [r.b EXCEPT !.tasks[t].module = dependentModule,
                                                        !.tasks[t].st = "build"],
                                            t, dependentModule),
                                        dependentModule, Waiter("depBuild", t)),
                            <<>>)

(* the callback of factory.create in addModuleDependencies, lines 279-390;*)
(* cachedDependencies is module.dependencies of a module reused from the  *)
(* cache                                                                   *)
depFactoryCallback(b, t, outcome, optional, needRebuild, cachedDependencies) ==
    LET inv == b.calls[b.tasks[t].call]
        dependentModule == NewModule(b, b.tasks[t].resource)
        r == addModule(b, dependentModule, inv.cacheGroup, needRebuild)
        existing == getModule(r.b, dependentModule)
    IN  IF ~inv.this
        THEN Returns(Release([b EXCEPT !.tasks[t].st = "done"], t), <<>>)
        ELSE CASE outcome = "err" ->
                    errorOrWarningAndCallback(
                        Release([b EXCEPT !.lastFailure =
                                    [called |-> TRUE, call |-> b.tasks[t].call,
                                     optional |-> optional]], t),
                        t, "ModuleNotFoundError", optional)
               [] outcome = "null" ->
                    Returns([Release([b EXCEPT !.tasks[t].st = "tick"], t)
                               EXCEPT !.ticks =
                                 Append(@, Call("iteratorCallback", t, FALSE, NoObject, ""))],
                            <<>>)
               [] outcome = "module" /\ r.result = "false" ->
                    Returns(waitForBuildingFinished(
                                Release(iterationDependencies(
                                            [r.b EXCEPT !.tasks[t].module = existing],
                                            t, existing), t),
                                existing, t),
                            <<>>)
               [] outcome = "module" /\ r.result = "module" ->
                    Returns([Release(iterationDependencies(
                                         [r.b EXCEPT !.tasks[t].module = r.module,
                                                     !.tasks[t].st = "deps",
                                                     !.moduleDependencies =
                                                        MapSet(@, r.module, cachedDependencies)],
                                         t, r.module),
                                     t)
                               EXCEPT !.ticks =
                                 Append(@, IF inv.recursive
                                           THEN Call("processModuleDependencies", t, FALSE,
                                                     r.module, "dep")
                                           ELSE Call("iteratorCallback", t, FALSE,
                                                     NoObject, ""))],
                            <<>>)
               [] outcome = "module" /\ r.result = "true" ->
                    Returns(buildModule(iterationDependencies(
                                            [r.b EXCEPT !.tasks[t].module = dependentModule,
                                                        !.tasks[t].st = "build"],
                                            t, dependentModule),
                                        dependentModule, Waiter("depBuild", t)),
                            <<>>)

(* onModule: line 530 for addEntry, line 550 for prefetch *)
onModule(b, t, module) ==
    IF b.tasks[t].kind = "entry"
    THEN [b EXCEPT !.entries = Append(@, module)]
    ELSE [b EXCEPT !.prefetched = @ \cup {module}]

(* the callback of moduleFactory.create in _addModuleChain, lines 435-518;*)
(* without a module, module.identifier() of line 116 throws               *)
chainFactoryCallback(b, t, outcome, needRebuild, cachedDependencies) ==
    LET module == NewModule(b, b.tasks[t].resource)
        r == addModule(b, module, NoGroup, needRebuild)
        existing == getModule(r.b, module)
    IN  CASE outcome = "err" ->
                chainErrorAndCallback(Release(b, t), t, "EntryModuleNotFoundError")
          [] outcome = "null" ->
                Returns([b EXCEPT !.tasks[t].st = "threw"], <<>>)
          [] outcome = "module" /\ r.result = "false" ->
                Returns(waitForBuildingFinished(
                            Release(onModule([r.b EXCEPT !.tasks[t].module = existing],
                                             t, existing), t),
                            existing, t),
                        <<>>)
          [] outcome = "module" /\ r.result = "module" ->
                moduleReady(onModule([r.b EXCEPT !.tasks[t].module = r.module,
                                                 !.moduleDependencies =
                                                    MapSet(@, r.module, cachedDependencies)],
                                     t, r.module), t)
          [] outcome = "module" /\ r.result = "true" ->
                Returns(buildModule(onModule([r.b EXCEPT !.tasks[t].module = module,
                                                         !.tasks[t].st = "build"],
                                             t, module),
                                    module, Waiter("chainBuild", t)),
                        <<>>)

(* which of the answers of the environment the callback reads *)
ReadsCache(t, outcome) ==
    /\ outcome = "module"
    /\ tasks[t].kind = "dep" => calls[tasks[t].call].this
    /\ tasks[t].resource \notin DOMAIN _modules
    /\ cache.present
    /\ cacheName(IF tasks[t].kind = "dep" THEN calls[tasks[t].call].cacheGroup
                 ELSE NoGroup, tasks[t].resource) \in DOMAIN cache.map

ReadsOptional(t, failed) ==
    /\ failed
    /\ tasks[t].kind = "dep"
    /\ calls[tasks[t].call].this

FactoryCallback ==
    /\ ticks = <<>>
    /\ \E t \in DOMAIN tasks :
          /\ tasks[t].st = "factory"
          /\ \E outcome \in {"err", "null", "module"}, optional, needRebuild \in BOOLEAN,
                cachedDependencies \in DependencyLists :
                /\ optional => ReadsOptional(t, outcome = "err")
                /\ ~needRebuild => ReadsCache(t, outcome) /\ timestamps
                /\ cachedDependencies # <<>> => ~needRebuild
                /\ Cardinality(DOMAIN tasks) + Len(cachedDependencies) <= MaxTasks
                /\ Turn(IF tasks[t].kind = "dep"
                        THEN depFactoryCallback(B, t, outcome, optional, needRebuild,
                                                cachedDependencies)
                        ELSE chainFactoryCallback(B, t, outcome, needRebuild,
                                                  cachedDependencies),
                        FALSE)

(* the rebuildModule calls made from a callback of rebuildModule *)
Nested == {k \in DOMAIN rebuildCalls : rebuildCalls[k].nested}

(***************************************************************************)
(* module.build calls back.                                                *)
(***************************************************************************)
BuildCallback ==
    /\ ticks = <<>>
    /\ \E module \in DOMAIN building :
          /\ building[module] > 0
          /\ \E err, optional, retry \in BOOLEAN, dependencies \in DependencyLists :
                /\ err => dependencies = <<>>
                /\ retry =>
                      /\ err
                      /\ Cardinality(Nested) < MaxRetries
                      /\ \E i \in DOMAIN CallbackList(B, module) :
                            CallbackList(B, module)[i].kind = "rebuildBuild"
                /\ Cardinality(DOMAIN tasks) + Len(dependencies) <= MaxTasks
                /\ optional =>
                      /\ err
                      /\ \E i \in DOMAIN CallbackList(B, module) :
                            /\ CallbackList(B, module)[i].kind = "depBuild"
                            /\ calls[tasks[CallbackList(B, module)[i].id].call].this
                /\ Turn(buildDone([B EXCEPT !.retry = retry], module, err, dependencies),
                        optional)

(***************************************************************************)
(* The head of the nextTick queue runs.                                    *)
(***************************************************************************)
NextTick ==
    /\ ticks # <<>>
    /\ Turn(Returns([B EXCEPT !.ticks = Tail(@)], <<Head(ticks)>>), FALSE)

(***************************************************************************)
(* Calls from outside.                                                     *)
(***************************************************************************)
(* what the calls from outside ask for *)
EntryNames == {"main"}
EntryResources == {"a"}
PrefetchResources == {"b"}

Chains == {t \in DOMAIN tasks : tasks[t].kind # "dep"}

External == {c \in DOMAIN calls : calls[c].callback.kind = "external"}

Rebuilds(joined) ==
    {k \in DOMAIN rebuildCalls : rebuildCalls[k].joined = joined /\ ~rebuildCalls[k].nested}

CallsMade == Cardinality(Chains) + Cardinality(External) + Cardinality(Rebuilds(FALSE))

(* addEntry and prefetch are called in the make phase, before a factory   *)
(* has called back                                                        *)
MakePhase == \A t \in DOMAIN tasks : tasks[t].st \in {"factory", "queued"}

(* _addModuleChain, lines 407-428 *)
addModuleChain(b, kind, resource) ==
    LET t == NewId(b.tasks)
    IN  Acquire([b EXCEPT !.tasks = MapSet(@, t, NewTask(kind, 0, resource))], t)

(* lines 522-545 *)
addEntry ==
    /\ MakePhase
    /\ CallsMade < MaxCalls
    /\ \E resource \in EntryResources, name \in EntryNames :
          Turn(addModuleChain(
                  [B EXCEPT !.preparedChunks =
                      Append(@, [name |-> name, module |-> NoObject,
                                 slot |-> NewId(tasks)])],
                  "entry", resource),
               FALSE)

(* lines 547-553 *)
prefetch ==
    /\ MakePhase
    /\ CallsMade < MaxCalls
    /\ \E resource \in PrefetchResources :
          Turn(addModuleChain(B, "prefetch", resource), FALSE)

(* addModuleDependencies called from outside, by a loader of a module   *)
(* that is being built, for one dependency, with its own bail, cacheGroup *)
(* and recursive; the dependency is an object of the caller, none of       *)
(* module.dependencies                                                     *)
addModuleDependenciesCall ==
    /\ ticks = <<>>
    /\ CallsMade < MaxCalls
    /\ \E module \in {m \in DOMAIN building : building[m] > 0},
          resource \in Identifiers,
          bailArg \in {TRUE}, recursive \in {FALSE}, cacheGroup \in {"lm"} :
          Turn(addModuleDependencies(B, module, <<resource>>,
                                     IF reasons.kept THEN 0 - builds[module] ELSE 0,
                                     bailArg, cacheGroup,
                                     recursive, "external", 0),
               FALSE)

(* lines 555-585, called from outside *)
rebuildModuleCall(b, module) ==
    LET k == Len(b.rebuildCalls) + 1
        b1 == rebuildModuleStart(b, module, FALSE)
    IN  [b1 EXCEPT !.lastBuild =
            IF module \in DOMAIN b._rebuildingModules
            THEN [called |-> TRUE, via |-> "rebuildModule", module |-> module,
                  callback |-> Waiter("rebuild", k)]
            ELSE [called |-> TRUE, via |-> "buildModule", module |-> module,
                  callback |-> Waiter("rebuildBuild", k)]]

rebuildModule ==
    /\ ticks = <<>>
    /\ \E module \in Range(modules) :
          /\ IF module \in DOMAIN _rebuildingModules
             THEN Cardinality(Rebuilds(TRUE)) < MaxJoins
             ELSE CallsMade < MaxCalls
          /\ Turn(Returns(rebuildModuleCall(B, module), <<>>), FALSE)

(* processModuleDependencies (lines 208-234) called from outside, by a    *)
(* plugin, for a module that has been built                                *)
processModuleDependenciesCall ==
    /\ ticks = <<>>
    /\ CallsMade < MaxCalls
    /\ \E module \in Range(modules) :
          /\ module \in DOMAIN moduleDependencies
          /\ Count(building, module) = 0
          /\ Turn(processModuleDependencies(B, module, "external", 0), FALSE)

(***************************************************************************)
(* The specification of the module graph construction.                     *)
(***************************************************************************)
(* what an earlier compilation left in the cache *)
EarlierCache == Cache(cacheName(NoGroup, "b") :> ModuleObject("b", 0))

(* the compilation after its constructor (lines 59-106), before make *)
InitMake ==
    /\ bail \in BOOLEAN
    /\ modules = <<>>
    /\ _modules = EmptyMap
    /\ errors = <<>>
    /\ entries = <<>>
    /\ prefetched = {}
    /\ _buildingModules = EmptyMap
    /\ _rebuildingModules = EmptyMap
    /\ building = EmptyMap
    /\ builds = EmptyMap
    /\ moduleDependencies = EmptyMap
    /\ tasks = EmptyMap
    /\ calls = EmptyMap
    /\ rebuildCalls = <<>>
    /\ ticks = <<>>
    /\ lastAdd = NoAddCall
    /\ lastBuild = NoBuildCall
    /\ joinLog = {}
    /\ lastFailure = NoFailure
    /\ calledBack = {}
    /\ warnings = <<>>
    /\ preparedChunks = <<>>
    /\ chunks = <<>>
    /\ InitNoIds
    /\ InitNoLabel
    /\ InitNoSeal
    /\ moduleDeps = <<>>
    /\ asyncBlocks = <<>>
    /\ chunkObj = <<>>
    /\ namedChunks = <<>>
    /\ moduleChunks = <<>>
    /\ blockChunkList = <<>>
    /\ sealPc = "idle"
    /\ inputChunks = <<>>
    /\ queue = <<>>
    /\ blockChunks = <<>>
    /\ chunkDependencies = <<>>
    /\ allCreatedChunks = {}
    /\ queue2 = <<>>
    /\ minAvailableModulesMap = <<>>

(* new Semaphore(options.parallelism || 100), line 80 *)
Semaphore(capacity) == [available |-> capacity, waiters |-> <<>>]

InitBuild ==
    /\ InitMake
    /\ semaphore = Semaphore(Parallelism)
    /\ cache \in {NoCache, EarlierCache}
    /\ timestamps \in IF cache.present THEN BOOLEAN ELSE {FALSE}
    /\ reasons = NoReasons

NextBuild ==
    \/ addEntry
    \/ prefetch
    \/ addModuleDependenciesCall
    \/ rebuildModule
    \/ FactoryCallback
    \/ BuildCallback
    \/ NextTick

SpecBuild == InitBuild /\ [][NextBuild]_vars

(***************************************************************************)
(* The specification of the module graph with the reasons of the modules:  *)
(* a compilation without a cache, whose modules are rebuilt and whose      *)
(* dependencies are processed again.                                       *)
(***************************************************************************)
InitReasons ==
    /\ InitMake
    /\ semaphore = Semaphore(Parallelism)
    /\ cache = NoCache
    /\ timestamps = FALSE
    /\ reasons = Reasons(EmptyMap)

NextReasons ==
    \/ addEntry
    \/ rebuildModule
    \/ processModuleDependenciesCall
    \/ FactoryCallback
    \/ BuildCallback
    \/ NextTick

SpecReasons == InitReasons /\ [][NextReasons]_vars

(***************************************************************************)
(* The specification of the make phase alone: addEntry and prefetch, with  *)
(* every capacity of the semaphore from 1 to options.parallelism.          *)
(***************************************************************************)
InitGraph ==
    /\ InitMake
    /\ semaphore \in {Semaphore(capacity) : capacity \in 1..Parallelism}
    /\ cache \in {NoCache, EarlierCache}
    /\ timestamps \in IF cache.present THEN BOOLEAN ELSE {FALSE}
    /\ reasons = Reasons(EmptyMap)

NextGraph ==
    \/ addEntry
    \/ prefetch
    \/ FactoryCallback
    \/ BuildCallback
    \/ NextTick

SpecGraph == InitGraph /\ [][NextGraph]_vars

(***************************************************************************)
(* Claims on the module store.                                             *)
(***************************************************************************)
(* C1: addModule has three outcomes.  It answers false when _modules      *)
(* holds the identifier, and leaves _modules, modules and cache as they   *)
(* were; it answers the cached instance, and inserts that instance into   *)
(* _modules and modules, when the cache has an entry under                *)
(* (cacheGroup or "m") + identifier, both timestamp maps are present and  *)
(* needRebuild answers false; otherwise it inserts the argument into      *)
(* _modules and modules, writes it to the cache under that name when      *)
(* there is a cache, and answers true.                                    *)
C1_AddModuleThreeOutcomes ==
    [][lastAdd'.called =>
        LET module == lastAdd'.module
            identifier == module.identifier
            name == (IF lastAdd'.cacheGroup = "" THEN "m" ELSE lastAdd'.cacheGroup)
                    \o identifier
            duplicate == identifier \in DOMAIN _modules
            reuse == /\ cache.present
                     /\ name \in DOMAIN cache.map
                     /\ timestamps
                     /\ ~lastAdd'.needRebuild
        IN  CASE duplicate ->
                    /\ lastAdd'.result = "false"
                    /\ UNCHANGED <<_modules, modules, cache>>
              [] ~duplicate /\ reuse ->
                    /\ lastAdd'.result = "module"
                    /\ lastAdd'.instance = cache.map[name]
                    /\ _modules' = MapSet(_modules, identifier, cache.map[name])
                    /\ modules' = Append(modules, cache.map[name])
              [] OTHER ->
                    /\ lastAdd'.result = "true"
                    /\ _modules' = MapSet(_modules, identifier, module)
                    /\ modules' = Append(modules, module)
                    /\ cache' = IF cache.present
                                THEN Cache(MapSet(cache.map, name, module))
                                ELSE cache]_vars

(* a cached module has been reused for a module object of the same identifier *)
C1_Witness ==
    /\ lastAdd.called
    /\ lastAdd.result = "module"
    /\ lastAdd.instance # lastAdd.module
    /\ lastAdd.instance \in Range(modules)

(* C2: modules never holds two entries with equal identifier(), whatever  *)
(* the interleaving of the calls and of the factory and build callbacks,  *)
(* and also when factories answer with different module objects of one    *)
(* identifier.                                                            *)
C2_UniqueIdentifiers ==
    \A i, j \in DOMAIN modules :
        modules[i].identifier = modules[j].identifier => i = j

(* a factory has answered with a second object of an identifier whose     *)
(* first object is still being built                                      *)
C2_Witness ==
    /\ lastAdd.called
    /\ lastAdd.result = "false"
    /\ lastAdd.module # _modules[lastAdd.module.identifier]
    /\ Count(building, _modules[lastAdd.module.identifier]) > 0
    /\ Len(modules) = 2

(***************************************************************************)
(* Claims on the semaphore and on the builds.                              *)
(***************************************************************************)
(* the tasks that wait for a permit, for their factory or for their build *)
Outstanding == {t \in DOMAIN tasks : tasks[t].st \in {"queued", "woken", "factory", "build"}}

BuildsInFlight == {m \in DOMAIN building : building[m] > 0}

(* C3: a task of addModuleDependencies or _addModuleChain that acquired a *)
(* permit releases it exactly once on every exit path (factory error, no  *)
(* module from the factory, duplicate, cache hit, build error, build      *)
(* success, callback after a bail abort); so the free permits never       *)
(* exceed the capacity, and are the capacity whenever no factory call and *)
(* no build is outstanding.                                               *)
C3_PermitReleasedOnce ==
    /\ \A t \in DOMAIN tasks :
          /\ tasks[t].released <= tasks[t].acquired
          /\ t \notin Outstanding => tasks[t].released = tasks[t].acquired
    /\ semaphore.available <= Parallelism
    /\ Outstanding = {} /\ BuildsInFlight = {} => semaphore.available = Parallelism

(* C4: the factory.create calls and the module.build calls that have      *)
(* started and not called back are never more than the capacity of the    *)
(* semaphore.                                                              *)
C4_InFlightWithinCapacity ==
    Cardinality({t \in DOMAIN tasks : tasks[t].st = "factory"})
        + Sum(building, DOMAIN building) <= Parallelism

(* C5: no module has two module.build calls in flight; a buildModule or   *)
(* rebuildModule call made while a build of the module has not called     *)
(* back does not call module.build again and appends its callback to the  *)
(* callback list that is there.                                            *)
C5_OneBuildInFlight ==
    [][/\ \A m \in DOMAIN building' : building'[m] <= 1
       /\ lastBuild'.called /\ Count(building, lastBuild'.module) > 0 =>
             LET m == lastBuild'.module
             IN  /\ building' = building
                 /\ IF lastBuild'.via = "buildModule"
                    THEN /\ m \in DOMAIN _buildingModules
                         /\ _buildingModules' =
                               [_buildingModules EXCEPT ![m] = Append(@, lastBuild'.callback)]
                    ELSE /\ m \in DOMAIN _rebuildingModules
                         /\ _rebuildingModules' =
                               [_rebuildingModules EXCEPT ![m] = Append(@, lastBuild'.callback.id)]
                         /\ _buildingModules' = _buildingModules]_vars

(* rebuildModule has been called for a module whose build, started by a   *)
(* task, has not called back: its callback is second in the list          *)
C5_Witness ==
    /\ lastBuild.called
    /\ lastBuild.module \in BuildsInFlight
    /\ lastBuild.module \in DOMAIN _buildingModules
    /\ Len(_buildingModules[lastBuild.module]) = 2
    /\ _buildingModules[lastBuild.module][2] = lastBuild.callback
    /\ lastBuild.callback.kind = "rebuildBuild"

(* C6: a caller that joined a build in flight, through buildModule,       *)
(* rebuildModule or waitForBuildingFinished, is completed with the status *)
(* of the build: its error when it fails, success when it succeeds.       *)
C6_JoinersGetBuildStatus ==
    \A j \in joinLog : j.received = j.status


(***************************************************************************)
(* Claims on the errors of the module graph construction.                  *)
(***************************************************************************)
(* the iterator callback of a group of invocation c was called without an *)
(* error: asyncLib.forEach counts the group as done, and after the last   *)
(* group the callback of the invocation is queued without an error        *)
GroupCompleted(c) ==
    /\ c \in DOMAIN calls'
    /\ IF calls[c].remaining > 1
       THEN /\ calls'[c].remaining = calls[c].remaining - 1
            /\ ~calls'[c].finished
       ELSE /\ calls'[c].finished
            /\ \E i \in DOMAIN ticks' :
                  /\ ticks'[i].op = "invocationCallback"
                  /\ ticks'[i].id = c
                  /\ ~ticks'[i].err

C20_NoSlotWithoutModule ==
    \A t \in DOMAIN tasks :
        (tasks[t].kind = "entry" /\ tasks[t].result # "pending") =>
            \A i \in DOMAIN preparedChunks :
                preparedChunks[i].slot = t =>
                    /\ preparedChunks[i].module # NoObject
                    /\ tasks[t].result = "ok"

(***************************************************************************)
(* Claims on the builds of the modules.                                    *)
(***************************************************************************)

(* the invocations of addModuleDependencies that process the dependencies  *)
(* of module, recursively, with one task for each group of dependencies    *)
ProcessingIn(invocations, ts, deps, module) ==
    {c \in DOMAIN invocations :
        /\ invocations[c].module = module
        /\ invocations[c].recursive
        /\ invocations[c].remaining = Len(deps[module])
        /\ Cardinality({t \in DOMAIN ts : ts[t].kind = "dep" /\ ts[t].call = c})
              = Len(deps[module])}

Processing(module) == ProcessingIn(calls, tasks, moduleDependencies, module)

(* C30: as long as rebuildModule has not been called, a turn invokes       *)
(* module.build only when its addModule call returned true, on the module  *)
(* it added, which has not been built before; a turn whose addModule       *)
(* returned false or the cached instance invokes no module.build.  So      *)
(* every module of compilation.modules has been built once, except the     *)
(* instances taken from the cache, which have not been built, and no       *)
(* module object outside compilation.modules has been built.  When         *)
(* addModule returns the cached instance, the dependencies of that         *)
(* instance are processed: on the next tick by addModuleDependencies,      *)
(* which was called with recursive set, at once by _addModuleChain.        *)
C30_BuiltOncePerAddedModule ==
    [][rebuildCalls' = <<>> =>
          /\ ~lastAdd'.called => builds' = builds
          /\ lastAdd'.called =>
                /\ lastAdd'.result = "true" =>
                      /\ lastAdd'.module \notin DOMAIN builds
                      /\ builds' = MapSet(builds, lastAdd'.module, 1)
                /\ lastAdd'.result = "false" => builds' = builds
                /\ lastAdd'.result = "module" =>
                      /\ builds' = builds
                      /\ lastAdd'.instance \notin DOMAIN builds
                      /\ \/ \E i \in DOMAIN ticks' :
                               /\ ticks'[i].op = "processModuleDependencies"
                               /\ ticks'[i].m = lastAdd'.instance
                         \/ ProcessingIn(calls', tasks', moduleDependencies', lastAdd'.instance) # {}
          /\ (ticks # <<>> /\ Head(ticks).op = "processModuleDependencies") =>
                ProcessingIn(calls', tasks', moduleDependencies', Head(ticks).m) # {}
          /\ \A m \in Range(modules') :
                Count(builds', m) = IF m \in Range(EarlierCache.map) THEN 0 ELSE 1
          /\ DOMAIN builds' \subseteq Range(modules')
    ]_vars

(* rebuildModule has not been called; a module has been built, addModule   *)
(* has returned false for another object with its identifier, and the      *)
(* dependencies of an instance that was taken from the cache are being     *)
(* processed                                                               *)
C30_Witness ==
    /\ rebuildCalls = <<>>
    /\ \E m \in Range(modules) :
          /\ m \in Range(EarlierCache.map)
          /\ m \notin DOMAIN builds
          /\ m \in DOMAIN moduleDependencies
          /\ moduleDependencies[m] # <<>>
          /\ Processing(m) # {}
    /\ \E m \in Range(modules) : Count(builds, m) = 1
    /\ lastAdd.called
    /\ lastAdd.result = "false"

(* the rebuildModule call that a callback made in the turn leading from    *)
(* the rebuildModule calls before to those after, 0 when there is none     *)
NestedCall(before, after) ==
    IF Len(after) > Len(before) /\ after[Len(after)].nested THEN Len(after) ELSE 0

(* C24: when module.build calls back, the entries of the callback list of  *)
(* the module are called once each, in the order of the list, and the      *)
(* first one is called when _buildingModules has no list for the module    *)
(* any more.  A rebuildModule call made from one of these callbacks is not *)
(* appended to a list and not dropped: it opens a new list, of its own     *)
(* callback alone, and module.build is invoked once more; that list is     *)
(* what the callbacks called after it find, and what the turn leaves.      *)
(* The call is for the module itself, or for a module whose rebuild the    *)
(* failed build ended.  Without such a call for it the turn leaves no list *)
(* for the module.                                                         *)
C24_ListRemovedBeforeCallbacks ==
    [][joinLog' # {} =>
          LET module == (CHOOSE e \in joinLog' : TRUE).module
              callbackList == _buildingModules[module]
              k == NestedCall(rebuildCalls, rebuildCalls')
              fresh == <<Waiter("rebuildBuild", k)>>
              again == IF k # 0 THEN rebuildCalls'[k].module ELSE NoObject
          IN  /\ Cardinality(joinLog') = Len(callbackList)
              /\ \A i \in DOMAIN callbackList :
                    \E e \in joinLog' :
                        /\ e.n = i
                        /\ e.module = module
                        /\ e.callback = callbackList[i].kind
                        /\ e.id = callbackList[i].id
                        /\ e.list = IF again = module /\ \E j \in 1..(i - 1) :
                                                         callbackList[j].kind = "rebuildBuild"
                                    THEN fresh ELSE <<>>
              /\ k # 0 =>
                    /\ rebuildCalls'[k].result = "pending"
                    /\ ~rebuildCalls'[k].joined
                    /\ again \in DOMAIN _buildingModules'
                    /\ _buildingModules'[again] = fresh
                    /\ _rebuildingModules'[again] = <<k>>
                    /\ builds' = [builds EXCEPT ![again] = @ + 1]
                    /\ building'[again] = 1
              /\ again # module =>
                    /\ module \notin DOMAIN _buildingModules'
                    /\ module \notin DOMAIN building'
              /\ k = 0 => builds' = builds
    ]_vars

(* a build has failed; the callback of rebuildModule, first in the list,   *)
(* has called rebuildModule again, and the callback of                     *)
(* waitForBuildingFinished, second in the list, has been called after it:  *)
(* the module is being built for the third time                            *)
C24_Witness ==
    /\ Cardinality(joinLog) = 2
    /\ \E e \in joinLog : e.n = 1 /\ e.callback = "rebuildBuild" /\ e.status /\ e.list = <<>>
    /\ \E e \in joinLog :
          /\ e.n = 2
          /\ e.callback = "waitDep"
          /\ Len(e.list) = 1
          /\ e.module \in DOMAIN _buildingModules
          /\ _buildingModules[e.module] = e.list
          /\ builds[e.module] = 3
          /\ building[e.module] = 1
    /\ Nested # {}


(***************************************************************************)
(* Claims on the reasons of the modules.                                   *)
(***************************************************************************)
ReasonsIn(rs, target) == ReasonsOf([reasons |-> rs], target)

(* the rebuildModule calls that wait in the list of module *)
Waiting(module) ==
    {k \in DOMAIN rebuildCalls :
        rebuildCalls[k].module = module /\ rebuildCalls[k].result = "pending"}

(* rebuildModule call k, which opened the list of its module, completes    *)
(* without an error in this step: module.build had succeeded, and the      *)
(* processing of the new dependencies calls back without an error          *)
RebuildSucceeds(k) ==
    LET module == rebuildCalls[k].module
    IN  /\ ~rebuildCalls[k].joined
        /\ rebuildCalls[k].result = "pending"
        /\ rebuildCalls'[k].result = "ok"
        /\ Count(reasons.gen, module) = Count(builds, module)
        /\ Count(building, module) = 0
        /\ \E c \in DOMAIN calls :
              /\ calls[c].callback = Waiter("rebuild", k)
              /\ calls[c].module = module
              /\ [call |-> c, err |-> FALSE] \in calledBack'

(* reason r is one of a dependency of the snapshot that call k took *)
OldReason(k, r) ==
    LET old == rebuildCalls[k].oldDependencies
    IN  /\ r.module = rebuildCalls[k].module
        /\ r.dependency.gen = old.gen
        /\ \E i \in DOMAIN old.resources : r.dependency.resource = old.resources[i]
        /\ old.gen < Count(reasons'.gen, r.module)

(* C28: rebuildModule removes the reasons of the module's old dependencies *)
(* only in the step in which the rebuild completes without an error, after *)
(* module.build and the processing of the new dependencies have both       *)
(* succeeded, and it removes only reasons of the old dependencies, so that *)
(* a target the new dependencies gave a reason to keeps it; when the build *)
(* or the processing fails no reason is removed and every waiter in the    *)
(* list receives the error.  A rebuildModule call for a module that is     *)
(* being rebuilt or built starts no module.build, any other (one made by   *)
(* the callback of a failed rebuild included, which finds both lists       *)
(* deleted) starts one, every waiter of a list receives the same result,   *)
(* and every call is in the list of its module once until it is called     *)
(* back, once.                                                             *)
C28_RebuildRemovesOldReasonsLast ==
    [][/\ \A target \in DOMAIN reasons.map :
             \A r \in reasons.map[target] \ ReasonsIn(reasons', target) :
                \E k \in DOMAIN rebuildCalls : RebuildSucceeds(k) /\ OldReason(k, r)
       /\ \A k \in DOMAIN rebuildCalls :
             (rebuildCalls[k].result = "pending" /\ rebuildCalls'[k].result # "pending") =>
                /\ \A j \in Waiting(rebuildCalls[k].module) :
                      rebuildCalls'[j].result = rebuildCalls'[k].result
                /\ rebuildCalls'[k].result = "err" =>
                      \A target \in DOMAIN reasons.map :
                         reasons.map[target] \subseteq ReasonsIn(reasons', target)
       /\ \A k \in DOMAIN rebuildCalls' \ DOMAIN rebuildCalls :
             LET module == rebuildCalls'[k].module
             IN  Count(builds', module) =
                    Count(builds, module)
                       + IF \/ rebuildCalls'[k].joined
                            \/ /\ ~rebuildCalls'[k].nested
                               /\ module \in DOMAIN _buildingModules
                         THEN 0 ELSE 1
       /\ \A k \in DOMAIN rebuildCalls' :
             LET call == rebuildCalls'[k]
                 list == IF call.module \in DOMAIN _rebuildingModules'
                         THEN _rebuildingModules'[call.module] ELSE <<>>
                 places == {i \in DOMAIN list : list[i] = k}
             IN  IF call.result = "pending"
                 THEN call.called = 0 /\ Cardinality(places) = 1
                 ELSE call.called = 1 /\ places = {}]_vars

(* a module with dependencies was rebuilt together with a second caller;   *)
(* both were called back without an error, and a target that lost the      *)
(* reason of an old dependency of the module has one of a new dependency   *)
C28_Witness ==
    \E k, j \in DOMAIN rebuildCalls :
       LET call == rebuildCalls[k]
           old == call.oldDependencies
       IN  /\ ~call.joined
           /\ call.result = "ok"
           /\ rebuildCalls[j].joined
           /\ rebuildCalls[j].module = call.module
           /\ rebuildCalls[j].result = "ok"
           /\ old.resources # <<>>
           /\ \E target \in call.patched :
                 /\ \E r \in reasons.map[target] :
                       r.module = call.module /\ r.dependency.gen > old.gen
                 /\ \A r \in reasons.map[target] :
                       r.module = call.module => r.dependency.gen > old.gen


(* the invocations that processModuleDependencies, called from outside,    *)
(* made                                                                    *)
SecondRuns(invocations) ==
    {c \in DOMAIN invocations :
        invocations[c].callback.kind = "external" /\ invocations[c].recursive}

(* nothing but invocation c is under way *)
Alone(c) ==
    /\ \A t \in DOMAIN tasks :
          IF tasks[t].kind = "dep" THEN tasks[t].call = c ELSE tasks[t].st = "done"
    /\ \A d \in DOMAIN calls \ {c} : calls[d].result # "pending"
    /\ \A i \in DOMAIN ticks : ticks[i].op \in {"iteratorCallback", "invocationCallback"}
    /\ _buildingModules = EmptyMap
    /\ _rebuildingModules = EmptyMap

(* the dependencies of module have all been resolved and built: each gave  *)
(* its reason to a module of the compilation that has been built and is    *)
(* not being built                                                         *)
ResolvedAndBuilt(module) ==
    /\ module \in DOMAIN moduleDependencies
    /\ Count(building, module) = 0
    /\ \A i \in DOMAIN moduleDependencies[module] :
          LET resource == moduleDependencies[module][i]
              d == Dependency(Count(reasons.gen, module), resource)
          IN  \E target \in Range(modules) :
                 /\ resource \in DOMAIN _modules
                 /\ _modules[resource] = target
                 /\ target \in DOMAIN moduleDependencies
                 /\ Count(building, target) = 0
                 /\ Reason(module, d) \in ReasonsIn(reasons, target)

(* C23: a second run of processModuleDependencies on a module whose        *)
(* dependencies have all been resolved and built, with nothing else under  *)
(* way, the module not built again since the run began and the factory     *)
(* failing for none of them, is a no-op: no step of                        *)
(* the run, from the call to its callback, changes modules, _modules, the  *)
(* reasons of a module, errors or warnings, none invokes module.build or   *)
(* processes the dependencies of another module, and the callback receives *)
(* no error.                                                               *)
C23_SecondRunIsNoOp ==
    [][\A c \in SecondRuns(calls') :
          (/\ c \in DOMAIN calls => calls[c].result = "pending"
           /\ Alone(c)
           /\ ResolvedAndBuilt(calls'[c].module)
           /\ calls'[c].gen = Count(reasons.gen, calls'[c].module)
           /\ SecondRuns(calls') \ {c} = SecondRuns(calls) \ {c}
           /\ \A t \in DOMAIN tasks' \ DOMAIN tasks : tasks'[t].call = c
           /\ rebuildCalls' = rebuildCalls
           /\ ~lastFailure'.called)
          => /\ modules' = modules
             /\ _modules' = _modules
             /\ \A target \in Range(modules) :
                   ReasonsIn(reasons', target) = ReasonsIn(reasons, target)
             /\ errors' = errors
             /\ warnings' = warnings
             /\ builds' = builds
             /\ calls'[c].result # "err"
             /\ DOMAIN calls' \subseteq DOMAIN calls \cup {c}]_vars

(* the second run of a module with two resolved dependencies has called    *)
(* back, nothing else is under way, and no error was recorded              *)
C23_Witness ==
    \E c \in SecondRuns(calls) :
       /\ calls[c].result = "ok"
       /\ Alone(c)
       /\ \A t \in DOMAIN tasks : tasks[t].kind # "dep"
       /\ ticks = <<>>
       /\ ResolvedAndBuilt(calls[c].module)
       /\ calls[c].gen = Count(reasons.gen, calls[c].module)
       /\ Len(moduleDependencies[calls[c].module]) = 2
       /\ errors = <<>>
       /\ warnings = <<>>


(***************************************************************************)
(* Claims on checkConstraints.                                             *)
(***************************************************************************)
(* C33: checkConstraints raises an error whenever two modules of `modules` *)
(* have the same id and whenever a chunk occurs twice in `chunks`; it      *)
(* completes without an error only when the module ids are pairwise        *)
(* distinct.                                                               *)
C33_DuplicatesRaise ==
    constraints # NotChecked =>
       /\ ~PairwiseDistinct(moduleId) => constraints # "passed"
       /\ ~PairwiseDistinct(chunks) => constraints # "passed"
       /\ constraints = "passed" => PairwiseDistinct(moduleId)


(***************************************************************************)
(* Claims on the make phase.                                               *)
(***************************************************************************)
(* addEntry or prefetch has been called, and the callbacks of all these    *)
(* calls have been invoked                                                 *)
AllCalledBack(ts) ==
    /\ \E t \in DOMAIN ts : ts[t].kind # "dep"
    /\ \A t \in DOMAIN ts : ts[t].kind # "dep" => ts[t].st = "done"

(* the factory of dep task t calls back with a module in this step *)
ProducesModule(t) ==
    /\ tasks[t].kind = "dep"
    /\ tasks[t].st = "factory"
    /\ t \in DOMAIN tasks' => tasks'[t].st # "factory"
    /\ lastAdd'.called

C31_NoEntryIsStuck ==
    (/\ ticks = <<>>
     /\ \A t \in DOMAIN tasks : tasks[t].st # "factory"
     /\ \A module \in DOMAIN building : building[module] = 0)
    => \A t \in DOMAIN tasks : tasks[t].kind = "entry" => tasks[t].st = "done"

====
